---- MODULE Spec2Model ----
(***************************************************************************)
(* Adaptive sentence selection and mastery tracking of hanzi-flow.         *)
(*                                                                         *)
(*   lib/mastery.ts             word mastery / sentence progress updates   *)
(*   lib/sentence-selection.ts  eligibility, scoring, batch generation,    *)
(*                              fallback cascade, queue + prefetch         *)
(*   lib/selection-config.ts    SELECTION_CONFIG                           *)
(*                                                                         *)
(* Numbers.  Scores, EWMAs and stabilities are JavaScript doubles in the   *)
(* source; here they are fixed-point integers with SCALE units per 1.0.    *)
(* Time (Date.now()) is counted in minutes, so one day is DAY minutes and   *)
(* the cooldown of cooldown_minutes is that many units.                    *)
(***************************************************************************)
EXTENDS Integers, Sequences, FiniteSets, TLC

\* ------------------------------------------------------------------------
\* Bounds of the model
\* ------------------------------------------------------------------------
NumChars == 2          \* char ids 1..NumChars can be attempted
MaxRecorded == 2       \* attempts plus sentence results handed to the record functions per run
MaxTicks == 1          \* how often the clock advances
NumSids == 1           \* sentence ids 1..NumSids can be reported as completed
MaxFinished == 1       \* sentences finished on the practice page per run

SCALE == 1000 * 1000   \* fixed-point units per 1.0
DAY == 24 * 60         \* 86400000 ms, in minutes
TICK == 60 \div 2      \* minutes the clock advances per Tick

CharIds == 1..NumChars
Sids == 1..NumSids

\* ------------------------------------------------------------------------
\* lib/mastery.ts: learning constants (as fractions num/den of 1.0)
\* ------------------------------------------------------------------------
ALPHA == [num |-> 2, den |-> 10]
BETA == [num |-> 15, den |-> 100]
GAMMA == [num |-> 2, den |-> 10]
INITIAL_S == (3 * SCALE) \div 10
INITIAL_STABILITY == SCALE
STABILITY_UP == [num |-> 14, den |-> 10]
STABILITY_DOWN == [num |-> 7, den |-> 10]
MIN_STABILITY == SCALE \div 2
MAX_STABILITY == 60 * SCALE

Max(a, b) == IF a >= b THEN a ELSE b
Min(a, b) == IF a <= b THEN a ELSE b

\* x * c for a fraction c (floor, as fixed-point)
Times(x, c) == (x * c.num) \div c.den

\* stability_days * 86400000, in minutes
StabilityMs(stab) == (stab * (DAY \div 80)) \div (SCALE \div 80)

NoRec == [absent |-> TRUE]

\* Math.max(0, Math.min(1, x))
Clamp01(x) == Max(0, Min(SCALE, x))

\* Math.max(MIN_STABILITY, Math.min(MAX_STABILITY, x))
ClampStability_unclamped(x) == x
ClampStability(x) == Max(MIN_STABILITY, Min(MAX_STABILITY, x))

\* now + stability * 86400000
nextReviewTs_initialInterval(t, stability) == t + StabilityMs(INITIAL_STABILITY)
nextReviewTs(t, stability) == t + StabilityMs(stability)

\* The success-rate update shared by words (BETA) and sentences (GAMMA):
\* the first attempt sets the rate to the outcome, later ones smooth it
ewma_alwaysSmoothed(previous, attemptsSoFar, e, rate) ==
    Clamp01(previous + Times(e - previous, rate))
ewma(previous, attemptsSoFar, e, rate) ==
    IF attemptsSoFar = 0
    THEN e
    ELSE Clamp01(previous + Times(e - previous, rate))

initializeWord_zeroStrength(char_id, t) ==
    [ char_id |-> char_id,
      s |-> 0,
      stability_days |-> INITIAL_STABILITY,
      next_review_ts |-> nextReviewTs(t, INITIAL_STABILITY),
      last_seen_ts |-> t,
      n_attempts |-> 0,
      n_correct |-> 0,
      streak_correct |-> 0,
      ewma_success |-> INITIAL_S,
      last_outcome |-> "wrong",
      introduced_ts |-> t ]
initializeWord(char_id, t) ==
    [ char_id |-> char_id,
      s |-> INITIAL_S,
      stability_days |-> INITIAL_STABILITY,
      next_review_ts |-> nextReviewTs(t, INITIAL_STABILITY),
      last_seen_ts |-> t,
      n_attempts |-> 0,
      n_correct |-> 0,
      streak_correct |-> 0,
      ewma_success |-> INITIAL_S,
      last_outcome |-> "wrong",
      introduced_ts |-> t ]

updateMastery_streakKept(current, correct, t) ==
    LET e == IF correct THEN SCALE ELSE 0
        newS == Clamp01(current.s + Times(e - current.s, ALPHA))
        unboundedStability ==
            IF correct THEN Times(current.stability_days, STABILITY_UP)
                       ELSE Times(current.stability_days, STABILITY_DOWN)
        newStability == ClampStability(unboundedStability)
        newStreak == current.streak_correct + (IF correct THEN 1 ELSE 0)
        newEwmaSuccess == ewma(current.ewma_success, current.n_attempts, e, BETA)
    IN  [ current EXCEPT
            !.s = newS,
            !.stability_days = newStability,
            !.next_review_ts = nextReviewTs(t, newStability),
            !.last_seen_ts = t,
            !.n_attempts = current.n_attempts + 1,
            !.n_correct = current.n_correct + (IF correct THEN 1 ELSE 0),
            !.streak_correct = newStreak,
            !.ewma_success = newEwmaSuccess,
            !.last_outcome = IF correct THEN "correct" ELSE "wrong" ]
updateMastery(current, correct, t) ==
    LET e == IF correct THEN SCALE ELSE 0
        newS == Clamp01(current.s + Times(e - current.s, ALPHA))
        unboundedStability ==
            IF correct THEN Times(current.stability_days, STABILITY_UP)
                       ELSE Times(current.stability_days, STABILITY_DOWN)
        newStability == ClampStability(unboundedStability)
        newStreak == IF correct THEN current.streak_correct + 1 ELSE 0
        newEwmaSuccess == ewma(current.ewma_success, current.n_attempts, e, BETA)
    IN  [ current EXCEPT
            !.s = newS,
            !.stability_days = newStability,
            !.next_review_ts = nextReviewTs(t, newStability),
            !.last_seen_ts = t,
            !.n_attempts = current.n_attempts + 1,
            !.n_correct = current.n_correct + (IF correct THEN 1 ELSE 0),
            !.streak_correct = newStreak,
            !.ewma_success = newEwmaSuccess,
            !.last_outcome = IF correct THEN "correct" ELSE "wrong" ]

\* Outcome kept for a char id that occurs again in the batch
MergeOutcome_last(existing, correct) == correct
MergeOutcome(existing, correct) == existing /\ correct

\* The Map built by the grouping loop of recordSentenceAttempt, as the
\* sequence of its entries <<char_id, correct>> in insertion order.
RECURSIVE UniqueAttempts(_, _)
UniqueAttempts(attempts, acc) ==
    IF attempts = << >> THEN acc
    ELSE LET a == Head(attempts)
             hit == { i \in 1..Len(acc) : acc[i][1] = a[1] }
         IN  IF hit = {}
             THEN UniqueAttempts(Tail(attempts), Append(acc, <<a[1], a[2]>>))
             ELSE LET i == CHOOSE j \in hit : TRUE
                  IN  UniqueAttempts(Tail(attempts),
                          [acc EXCEPT ![i] = <<a[1], MergeOutcome(acc[i][2], a[2])>>])

\* The first-time record built by recordSentenceProgress
initializeSentence(sid, t) ==
    [ sid |-> sid,
      introduced_ts |-> t,
      last_seen_ts |-> t,
      seen_count |-> 0,
      pass_count |-> 0,
      cumulative_score |-> 0,
      ewma_pass |-> INITIAL_S,
      last_outcome |-> "fail" ]

\* passed = score >= 1.0
Passed_majority(score) == score * 2 >= SCALE
Passed(score) == score >= SCALE

\* The record recordSentenceProgress writes back
updateSentence_reintroduced(sentence, score, t) ==
    LET e == score
        newEwmaPass == ewma(sentence.ewma_pass, sentence.seen_count, e, GAMMA)
        passed == Passed(score)
    IN  [ sentence EXCEPT
            !.introduced_ts = t,
            !.last_seen_ts = t,
            !.seen_count = sentence.seen_count + 1,
            !.pass_count = sentence.pass_count + (IF passed THEN 1 ELSE 0),
            !.cumulative_score = sentence.cumulative_score + score,
            !.ewma_pass = newEwmaPass,
            !.last_outcome = IF passed THEN "pass" ELSE "fail" ]
updateSentence(sentence, score, t) ==
    LET e == score
        newEwmaPass == ewma(sentence.ewma_pass, sentence.seen_count, e, GAMMA)
        passed == Passed(score)
    IN  [ sentence EXCEPT
            !.last_seen_ts = t,
            !.seen_count = sentence.seen_count + 1,
            !.pass_count = sentence.pass_count + (IF passed THEN 1 ELSE 0),
            !.cumulative_score = sentence.cumulative_score + score,
            !.ewma_pass = newEwmaPass,
            !.last_outcome = IF passed THEN "pass" ELSE "fail" ]

\* ------------------------------------------------------------------------
\* State
\* ------------------------------------------------------------------------
VARIABLES
    now,        \* Date.now(), minutes
    ticks,      \* number of clock advances so far
    words,      \* db.words: char_id -> WordMastery or NoRec
    sentences,  \* db.sentences: sid -> SentenceProgress or NoRec
    att,        \* the running / last recordSentenceAttempt call
    prog,       \* the running / last recordSentenceProgress call
    nRecorded,  \* attempts and sentence results handed over so far
    nFinished   \* sentences finished on the practice page so far

masteryVars == <<now, ticks, words, sentences, att, prog, nRecorded, nFinished>>

\* result: how the last call ended for its caller ("returned", "raised");
\* outcome: what became of its writes ("committed", "failed");
\* written: how many unique ids the last call had put when it ended;
\* mixed: the last call's batch held an id attempted wrong, then correct
AttIdle ==
    [ pc |-> "idle", attempts |-> << >>, unique |-> << >>, i |-> 1,
      tx |-> << >>, before |-> << >>, result |-> "none", outcome |-> "none",
      written |-> 0, mixed |-> FALSE ]

ProgIdle ==
    [ pc |-> "idle", sid |-> 0, score |-> 0, t |-> 0, sentence |-> NoRec,
      result |-> "none", outcome |-> "none" ]

EmptyWords == [c \in CharIds |-> NoRec]
EmptySentences == [sid \in Sids |-> NoRec]

\* n correct attempts on a record, all at time t
RECURSIVE Practised(_, _, _)
Practised(rec, n, t) ==
    IF n = 0 THEN rec ELSE Practised(updateMastery(rec, TRUE, t), n - 1, t)

\* A store left by earlier sessions: char 1 has a long correct streak
\* behind it, char 2 one wrong attempt
VeteranWords ==
    [c \in CharIds |->
        IF c = 1 THEN Practised(initializeWord(1, 0), 12, 0)
        ELSE IF c = 2 THEN updateMastery(initializeWord(2, 0), FALSE, 0)
        ELSE NoRec]

\* A store in which sentence 1 has been passed once
VeteranSentences ==
    [sid \in Sids |->
        IF sid = 1 THEN updateSentence(initializeSentence(1, 0), SCALE, 0) ELSE NoRec]

Attempts ==
    UNION { [1..n -> CharIds \X BOOLEAN] : n \in 0..MaxRecorded }

Scores == {0, SCALE \div 2, SCALE}

InitMastery ==
    /\ now = 0
    /\ ticks = 0
    /\ words \in {EmptyWords, VeteranWords}
    /\ sentences \in {EmptySentences, VeteranSentences}
    /\ att = AttIdle
    /\ prog = ProgIdle
    /\ nRecorded = 0
    /\ nFinished = 0

\* The clock moves on by one TICK (half an hour); the record functions'
\* database calls take milliseconds, so no call is running across a tick.
Tick ==
    /\ ticks < MaxTicks
    /\ att.pc = "idle"
    /\ prog.pc = "idle"
    /\ now' = now + TICK
    /\ ticks' = ticks + 1
    /\ UNCHANGED <<words, sentences, att, prog, nRecorded, nFinished>>

\* ------------------------------------------------------------------------
\* recordSentenceAttempt
\* ------------------------------------------------------------------------

\* What db.words holds while the 'rw' transaction is open: writes made
\* inside the transaction are applied to the store only when it commits.
StoreDuringTx_direct(committed, txView) == txView
StoreDuringTx(committed, txView) == committed

\* How the call ends when the try block threw: the catch block logs and
\* the function returns normally.
AttemptCatch_rethrow == "raised"
AttemptCatch == "returned"

ProgressCatch == "returned"

MixedDuplicate(attempts) ==
    \E i, j \in 1..Len(attempts) :
        /\ i < j
        /\ attempts[i][1] = attempts[j][1]
        /\ ~attempts[i][2]
        /\ attempts[j][2]

\* recordSentenceAttempt(attempts): group by char_id, open the transaction
RSA_Call(attempts) ==
    /\ att.pc = "idle"
    /\ nRecorded + Len(attempts) <= MaxRecorded
    /\ nRecorded' = nRecorded + Len(attempts)
    /\ att' = [ AttIdle EXCEPT
                  !.pc = "tx", !.attempts = attempts,
                  !.unique = UniqueAttempts(attempts, << >>),
                  !.tx = words, !.before = words ]
    /\ UNCHANGED <<now, ticks, words, sentences, prog, nFinished>>

\* one iteration of the loop inside the transaction: get, update, put
RSA_Step ==
    /\ att.pc = "tx"
    /\ att.i <= Len(att.unique)
    /\ LET char_id == att.unique[att.i][1]
           correct == att.unique[att.i][2]
           word == IF att.tx[char_id] = NoRec
                   THEN initializeWord(char_id, now)
                   ELSE att.tx[char_id]
           updated == updateMastery(word, correct, now)
           txView == [att.tx EXCEPT ![char_id] = updated]
       IN  /\ att' = [att EXCEPT !.tx = txView, !.i = att.i + 1]
           /\ words' = StoreDuringTx(words, txView)
    /\ UNCHANGED <<now, ticks, sentences, prog, nRecorded, nFinished>>

\* the transaction completes: all its writes become the stored state
RSA_Commit ==
    /\ att.pc = "tx"
    /\ att.i > Len(att.unique)
    /\ words' = att.tx
    /\ att' = [ AttIdle EXCEPT
                  !.result = "returned", !.outcome = "committed",
                  !.written = att.i - 1, !.mixed = MixedDuplicate(att.attempts) ]
    /\ UNCHANGED <<now, ticks, sentences, prog, nRecorded, nFinished>>

\* a read or write fails (or the transaction is interrupted): the
\* transaction aborts, the error reaches the catch block
RSA_Fail ==
    /\ att.pc = "tx"
    /\ words' = StoreDuringTx(words, att.tx)
    /\ att' = [ AttIdle EXCEPT
                  !.result = AttemptCatch, !.outcome = "failed",
                  !.written = att.i - 1, !.mixed = MixedDuplicate(att.attempts) ]
    /\ UNCHANGED <<now, ticks, sentences, prog, nRecorded, nFinished>>

\* ------------------------------------------------------------------------
\* recordSentenceProgress
\* ------------------------------------------------------------------------

\* recordSentenceProgress(sid, score): now = Date.now(), then await the get
RSP_Call(sid, score) ==
    /\ prog.pc = "idle"
    /\ nRecorded < MaxRecorded
    /\ nRecorded' = nRecorded + 1
    /\ prog' = [ProgIdle EXCEPT !.pc = "get", !.sid = sid, !.score = score, !.t = now]
    /\ UNCHANGED <<now, ticks, words, sentences, att, nFinished>>

\* db.sentences.get(sid) resolves: fetch or create
RSP_Get ==
    /\ prog.pc = "get"
    /\ prog' = [prog EXCEPT
                  !.pc = "put",
                  !.sentence = IF sentences[prog.sid] = NoRec
                               THEN initializeSentence(prog.sid, prog.t)
                               ELSE sentences[prog.sid]]
    /\ UNCHANGED <<now, ticks, words, sentences, att, nRecorded, nFinished>>

\* db.sentences.put(updated) resolves
RSP_Put ==
    /\ prog.pc = "put"
    /\ sentences' = [sentences EXCEPT
                       ![prog.sid] = updateSentence(prog.sentence, prog.score, prog.t)]
    /\ prog' = [ProgIdle EXCEPT !.result = "returned", !.outcome = "committed"]
    /\ UNCHANGED <<now, ticks, words, att, nRecorded, nFinished>>

\* the get or the put fails: caught, logged
RSP_Fail ==
    /\ prog.pc \in {"get", "put"}
    /\ prog' = [ProgIdle EXCEPT !.result = ProgressCatch, !.outcome = "failed"]
    /\ UNCHANGED <<now, ticks, words, sentences, att, nRecorded, nFinished>>

\* ------------------------------------------------------------------------
\* app/practice/page.tsx: the effect that records a finished sentence
\* ------------------------------------------------------------------------

\* A sentence's chars as the page sees them: a char id for a Chinese
\* character of the mapping, NoPinyin for punctuation and the like,
\* Unmapped for a Chinese character getCharId does not know.
NoPinyin == 0
Unmapped == 0 - 1

\* the contents of the sentences being practised
PracticeChars ==
    { <<1>>, <<1, 2>>, <<2, 1, 2>>, <<1, NoPinyin, 1>>, <<Unmapped, 2>>,
      <<NoPinyin>> }

\* chars.slice(0, idx).filter(c => c.pinyin !== null).length
RECURSIVE chineseCharsBefore(_, _)
chineseCharsBefore(chars, idx) ==
    IF idx <= 1 THEN 0
    ELSE chineseCharsBefore(chars, idx - 1)
           + (IF chars[idx - 1] # NoPinyin THEN 1 ELSE 0)

\* state.results[i] ?? false
ResultAt(results, i) == IF i + 1 \in DOMAIN results THEN results[i + 1] ELSE FALSE

\* the attempts array: one entry per Chinese character with a char id
RECURSIVE BuildAttempts(_, _, _)
BuildAttempts(chars, results, idx) ==
    IF idx > Len(chars) THEN << >>
    ELSE IF chars[idx] = NoPinyin \/ chars[idx] = Unmapped
         THEN BuildAttempts(chars, results, idx + 1)
         ELSE << <<chars[idx], ResultAt(results, chineseCharsBefore(chars, idx))>> >>
                \o BuildAttempts(chars, results, idx + 1)

\* Math.min(existingScore, currentScore), on 0/1 scores
ScoreOutcome_last(existingScore, currentScore) == currentScore
ScoreOutcome(existingScore, currentScore) == Min(existingScore, currentScore)

\* the charScores Map, as the sequence of its entries <<char_id, 0 or 1>>
RECURSIVE charScores(_, _)
charScores(attempts, acc) ==
    IF attempts = << >> THEN acc
    ELSE LET a == Head(attempts)
             currentScore == IF a[2] THEN 1 ELSE 0
             hit == { i \in 1..Len(acc) : acc[i][1] = a[1] }
         IN  IF hit = {}
             THEN charScores(Tail(attempts), Append(acc, <<a[1], currentScore>>))
             ELSE LET i == CHOOSE j \in hit : TRUE
                  IN  charScores(Tail(attempts),
                          [acc EXCEPT ![i] = <<a[1], ScoreOutcome(acc[i][2], currentScore)>>])

RECURSIVE SumScores(_)
SumScores(entries) ==
    IF entries = << >> THEN 0 ELSE Head(entries)[2] + SumScores(Tail(entries))

\* the average over the unique characters, 0 when there is none
sentenceScore(attempts) ==
    LET entries == charScores(attempts, << >>)
    IN  IF Len(entries) > 0
        THEN (SumScores(entries) * SCALE) \div Len(entries)
        ELSE 0

\* The sentence is finished: the effect builds the attempts, computes the
\* score and calls recordSentenceAttempt and recordSentenceProgress one
\* after the other without awaiting either; each runs up to its first await.
FinishSentence(sid, chars, results) ==
    /\ att.pc = "idle"
    /\ prog.pc = "idle"
    /\ nFinished < MaxFinished
    /\ nFinished' = nFinished + 1
    /\ LET attempts == BuildAttempts(chars, results, 1)
       IN  /\ att' = [ AttIdle EXCEPT
                         !.pc = "tx", !.attempts = attempts,
                         !.unique = UniqueAttempts(attempts, << >>),
                         !.tx = words, !.before = words ]
           /\ prog' = [ ProgIdle EXCEPT
                          !.pc = "get", !.sid = sid,
                          !.score = sentenceScore(attempts), !.t = now ]
    /\ UNCHANGED <<now, ticks, words, sentences, nRecorded>>

\* ------------------------------------------------------------------------
\* lib/selection-config.ts: SELECTION_CONFIG
\* ------------------------------------------------------------------------
theta_known == (7 * SCALE) \div 10
theta_known_fallback == (65 * SCALE) \div 100
k_min == 2
k_max == 5
k_min_backlog == 1
k_max_backlog == 3
due_cap == 80
cooldown_minutes == 60
ewma_skip_threshold == (9 * SCALE) \div 10
min_seen_for_skip == 2
overdue_boost == [num |-> 12, den |-> 10]
novelty_weight == [num |-> 5, den |-> 100]
pass_penalty_weight == [num |-> 1, den |-> 10]
k_penalty_weight == [num |-> 2, den |-> 10]
batch_size == 10
prefetch_threshold == 2
pool_sample_size == 200
max_novelty_hours == 72

NoCap == [capped |-> FALSE, k |-> 0]
Cap(n) == [capped |-> TRUE, k |-> n]

k_cap_by_mastery ==
    [ cold_start |-> [threshold |-> (4 * SCALE) \div 10, k_cap |-> Cap(12)],
      early |-> [threshold |-> (6 * SCALE) \div 10, k_cap |-> Cap(10)],
      intermediate |-> [threshold |-> (75 * SCALE) \div 100, k_cap |-> Cap(8)],
      advanced |-> [threshold |-> SCALE, k_cap |-> NoCap] ]


\* ------------------------------------------------------------------------
\* lib/sentence-selection.ts: helpers
\* ------------------------------------------------------------------------
parseHskFilter(hskFilter) ==
    CASE hskFilter = "1" -> {"1"}
      [] hskFilter = "1-2" -> {"1", "2"}
      [] hskFilter = "1-3" -> {"1", "2", "3"}
      [] hskFilter = "1-4" -> {"1", "2", "3", "4"}
      [] hskFilter = "1-5" -> {"1", "2", "3", "4", "5"}
      [] hskFilter = "1-6" -> {"1", "2", "3", "4", "5", "6"}
      [] hskFilter = "1-9" -> {"1", "2", "3", "4", "5", "6", "7-9"}
      [] hskFilter = "1-beyond" -> {"1", "2", "3", "4", "5", "6", "7-9", "beyond-hsk"}

\* db.words.get(char_id) / db.sentences.get(sid): undefined when not stored
WordOf(W, char_id) == IF char_id \in DOMAIN W THEN W[char_id] ELSE NoRec
SentenceOf(S, sid) == IF sid \in DOMAIN S THEN S[sid] ELSE NoRec

StoredWords(W) == { c \in DOMAIN W : W[c] # NoRec }

RECURSIVE SumOver(_, _)
SumOver(f, S) ==
    IF S = {} THEN 0
    ELSE LET x == CHOOSE y \in S : TRUE IN f[x] + SumOver(f, S \ {x})

countDueWords(t, W) ==
    Cardinality({ c \in StoredWords(W) : W[c].next_review_ts <= t })

getAverageMastery(W) ==
    IF StoredWords(W) = {} THEN INITIAL_S
    ELSE SumOver([c \in StoredWords(W) |-> W[c].s], StoredWords(W))
            \div Cardinality(StoredWords(W))

\* the tiers with the caps in the opposite order
getDynamicKCap_tightestFirst(W) ==
    LET avgMastery == getAverageMastery(W)
    IN  IF avgMastery < k_cap_by_mastery.cold_start.threshold
        THEN k_cap_by_mastery.intermediate.k_cap
        ELSE IF avgMastery < k_cap_by_mastery.early.threshold
        THEN k_cap_by_mastery.early.k_cap
        ELSE IF avgMastery < k_cap_by_mastery.intermediate.threshold
        THEN k_cap_by_mastery.cold_start.k_cap
        ELSE k_cap_by_mastery.advanced.k_cap

getDynamicKCap(W) ==
    LET avgMastery == getAverageMastery(W)
    IN  IF avgMastery < k_cap_by_mastery.cold_start.threshold
        THEN k_cap_by_mastery.cold_start.k_cap
        ELSE IF avgMastery < k_cap_by_mastery.early.threshold
        THEN k_cap_by_mastery.early.k_cap
        ELSE IF avgMastery < k_cap_by_mastery.intermediate.threshold
        THEN k_cap_by_mastery.intermediate.k_cap
        ELSE k_cap_by_mastery.advanced.k_cap

getDifficultyBand_atCap(dueWords) ==
    IF dueWords >= due_cap
    THEN [k_min |-> k_min_backlog, k_max |-> k_max_backlog]
    ELSE [k_min |-> k_min, k_max |-> k_max]
getDifficultyBand(dueWords) ==
    IF dueWords > due_cap
    THEN [k_min |-> k_min_backlog, k_max |-> k_max_backlog]
    ELSE [k_min |-> k_min, k_max |-> k_max]

\* Math.log(1 + hours) for hours = halfHours / 2, capped at max_novelty_hours
LnTable == <<0, 405465, 693147, 916291, 1098612, 1252763, 1386294, 1504077, 1609438>>
LnCap == 4290459
Ln1pHours(minutes) ==
    IF minutes >= max_novelty_hours * 60 THEN LnCap
    ELSE LnTable[(minutes \div TICK) + 1]

\* minutes since the sentence was last seen, capped (hoursSinceSeen * 60)
minutesSinceSeen(sentenceState, t) ==
    IF sentenceState = NoRec THEN max_novelty_hours * 60
    ELSE Min(t - sentenceState.last_seen_ts, max_novelty_hours * 60)

passesCooldown_strict(sentenceState, t, ignoreCooldown) ==
    IF ignoreCooldown THEN TRUE
    ELSE IF sentenceState = NoRec THEN TRUE
    ELSE (t - sentenceState.last_seen_ts) > cooldown_minutes
passesCooldown(sentenceState, t, ignoreCooldown) ==
    IF ignoreCooldown THEN TRUE
    ELSE IF sentenceState = NoRec THEN TRUE
    ELSE (t - sentenceState.last_seen_ts) >= cooldown_minutes

shouldSkip_either(sentenceState, ignoreSkip) ==
    IF ignoreSkip THEN FALSE
    ELSE IF sentenceState = NoRec THEN FALSE
    ELSE \/ sentenceState.ewma_pass >= ewma_skip_threshold
         \/ sentenceState.seen_count >= min_seen_for_skip
shouldSkip(sentenceState, ignoreSkip) ==
    IF ignoreSkip THEN FALSE
    ELSE IF sentenceState = NoRec THEN FALSE
    ELSE /\ sentenceState.ewma_pass >= ewma_skip_threshold
         /\ sentenceState.seen_count >= min_seen_for_skip

NotAmbiguous_any(s) == TRUE
NotAmbiguous(s) == s.script_type # "ambiguous"

\* Step 1: the script types a script filter lets through
ScriptMatches_any(s, scriptFilter) == TRUE
ScriptMatches(s, scriptFilter) ==
    IF scriptFilter = "simplified"
    THEN s.script_type \in {"simplified", "neutral"}
    ELSE IF scriptFilter = "traditional"
    THEN s.script_type \in {"traditional", "neutral"}
    ELSE TRUE

\* Step 1 with its fallback: the script-filtered sentences
scriptFiltered_noFallback(allSentences, scriptFilter) ==
    LET scriptOk(s) ==
            /\ s.script_type # "ambiguous"
            /\ ScriptMatches(s, scriptFilter)
    IN  SelectSeq(allSentences, scriptOk)
scriptFiltered(allSentences, scriptFilter) ==
    LET scriptOk(s) ==
            /\ s.script_type # "ambiguous"
            /\ ScriptMatches(s, scriptFilter)
        filtered0 == SelectSeq(allSentences, scriptOk)
    IN  IF Len(filtered0) = 0
        THEN SelectSeq(allSentences, NotAmbiguous)
        ELSE filtered0

\* Step 1.5 with its fallback: the level-filtered sentences
hskFiltered_untaggedKept(filtered, hskFilter) ==
    LET allowedHskLevels == parseHskFilter(hskFilter)
        hskOk(s) == s.hskLevel = "" \/ s.hskLevel \in allowedHskLevels
        hskFiltered0 == SelectSeq(filtered, hskOk)
    IN  IF Len(hskFiltered0) = 0 THEN filtered ELSE hskFiltered0
hskFiltered(filtered, hskFilter) ==
    LET allowedHskLevels == parseHskFilter(hskFilter)
        hskOk(s) == s.hskLevel # "" /\ s.hskLevel \in allowedHskLevels
        hskFiltered0 == SelectSeq(filtered, hskOk)
    IN  IF Len(hskFiltered0) = 0 THEN filtered ELSE hskFiltered0

getEligibleSentences(allSentences, scriptFilter, hskFilter, t, ignoreCooldown, ignoreSkip, S) ==
    LET levelled == hskFiltered(scriptFiltered(allSentences, scriptFilter), hskFilter)
        gateOk(s) ==
            /\ passesCooldown(SentenceOf(S, s.id), t, ignoreCooldown)
            /\ ~shouldSkip(SentenceOf(S, s.id), ignoreSkip)
    IN  SelectSeq(levelled, gateOk)

\* Math.random() is drawn from a small set of seeds; shuffle(array) under
\* seed r is a fixed permutation: as given or reversed (rotated by one for
\* any further seed).
Rnds == {0, 1}

Reverse(seq) == [i \in 1..Len(seq) |-> seq[Len(seq) + 1 - i]]

shuffle(array, r) ==
    IF Len(array) <= 1 \/ r = 0 THEN array
    ELSE IF r = 1 THEN Reverse(array)
    ELSE Append(Tail(array), Head(array))

Take(seq, n) == SubSeq(seq, 1, Min(n, Len(seq)))

\* ------------------------------------------------------------------------
\* Scoring
\* ------------------------------------------------------------------------
NoScore == [ok |-> FALSE]

\* the unknowns array of scoreSentence: one entry per occurrence of a
\* char that has pinyin and a char id (id 0 stands for a char without)
RECURSIVE Unknowns(_, _, _, _)
Unknowns(chars, theta, t, W) ==
    IF chars = << >> THEN << >>
    ELSE LET char_id == Head(chars)
             wordMastery == WordOf(W, char_id)
             s == IF wordMastery = NoRec THEN INITIAL_S ELSE wordMastery.s
             overdue == IF wordMastery = NoRec THEN FALSE
                        ELSE t >= wordMastery.next_review_ts
             rest == Unknowns(Tail(chars), theta, t, W)
         IN  IF char_id = 0 THEN rest
             ELSE IF s < theta
             THEN <<[char_id |-> char_id, s |-> s, overdue |-> overdue]>> \o rest
             ELSE rest

countUnknowns(sentence, theta, W) == Len(Unknowns(sentence.chars, theta, 0, W))

RECURSIVE BaseGain(_)
BaseGain(unknowns) ==
    IF unknowns = << >> THEN 0
    ELSE LET u == Head(unknowns)
             gain == IF u.overdue THEN Times(SCALE - u.s, overdue_boost)
                     ELSE SCALE - u.s
         IN  gain + BaseGain(Tail(unknowns))

\* the two early returns of scoreSentence: nothing to learn, or over the cap
Rejected_overCapOnly(k, k_cap) == k_cap.capped /\ k > k_cap.k
Rejected(k, k_cap) == k = 0 \/ (k_cap.capped /\ k > k_cap.k)

\* the same with a sentence outside the band rejected
scoreSentence_bandRejects(sentence, kmin, kmax, t, theta, k_cap, W, S) ==
    LET unknowns == Unknowns(sentence.chars, theta, t, W)
        k == Len(unknowns)
        sentenceState == SentenceOf(S, sentence.id)
        novelty == Times(Ln1pHours(minutesSinceSeen(sentenceState, t)), novelty_weight)
        pass_penalty ==
            Times(IF sentenceState = NoRec THEN 0 ELSE sentenceState.ewma_pass,
                  pass_penalty_weight)
    IN  IF Rejected(k, k_cap) \/ k < kmin \/ k > kmax THEN NoScore
        ELSE [ ok |-> TRUE,
               sid |-> sentence.id,
               score |-> BaseGain(unknowns) + novelty - pass_penalty,
               k |-> k,
               last_seen_ts |-> IF sentenceState = NoRec THEN 0
                                ELSE sentenceState.last_seen_ts ]
scoreSentence(sentence, kmin, kmax, t, theta, k_cap, W, S) ==
    LET unknowns == Unknowns(sentence.chars, theta, t, W)
        k == Len(unknowns)
        sentenceState == SentenceOf(S, sentence.id)
        novelty == Times(Ln1pHours(minutesSinceSeen(sentenceState, t)), novelty_weight)
        pass_penalty ==
            Times(IF sentenceState = NoRec THEN 0 ELSE sentenceState.ewma_pass,
                  pass_penalty_weight)
        nearest == IF k < kmin THEN kmin ELSE kmax
        dist == IF k >= nearest THEN k - nearest ELSE nearest - k
        k_penalty == IF k < kmin \/ k > kmax
                     THEN Times(dist * SCALE, k_penalty_weight) ELSE 0
    IN  IF Rejected(k, k_cap) THEN NoScore
        ELSE [ ok |-> TRUE,
               sid |-> sentence.id,
               score |-> BaseGain(unknowns) + novelty - pass_penalty - k_penalty,
               k |-> k,
               last_seen_ts |-> IF sentenceState = NoRec THEN 0
                                ELSE sentenceState.last_seen_ts ]

RECURSIVE scoreCandidates(_, _, _, _, _, _, _, _)
scoreCandidates(pool, kmin, kmax, t, theta, k_cap, W, S) ==
    IF pool = << >> THEN << >>
    ELSE LET result == scoreSentence(Head(pool), kmin, kmax, t, theta, k_cap, W, S)
             rest == scoreCandidates(Tail(pool), kmin, kmax, t, theta, k_cap, W, S)
         IN  IF result.ok THEN <<result>> \o rest ELSE rest

\* the comparator of sortScored: a sorts before b
Before_ascending(a, b) ==
    IF a.score # b.score THEN a.score < b.score
    ELSE IF a.k # b.k THEN a.k > b.k
    ELSE a.last_seen_ts < b.last_seen_ts
Before(a, b) ==
    IF a.score # b.score THEN a.score > b.score
    ELSE IF a.k # b.k THEN a.k > b.k
    ELSE a.last_seen_ts < b.last_seen_ts

\* insert x after every element that does not sort after it (stable)
RECURSIVE InsertSorted(_, _)
InsertSorted(sorted, x) ==
    IF sorted = << >> THEN <<x>>
    ELSE IF Before(x, Head(sorted)) THEN <<x>> \o sorted
    ELSE <<Head(sorted)>> \o InsertSorted(Tail(sorted), x)

RECURSIVE sortScoredFrom(_, _)
sortScoredFrom(scored, acc) ==
    IF scored = << >> THEN acc
    ELSE sortScoredFrom(Tail(scored), InsertSorted(acc, Head(scored)))

sortScored(scored) == sortScoredFrom(scored, << >>)

takeTopN_all(scored, n) == sortScored(scored)
takeTopN(scored, n) == Take(sortScored(scored), n)

\* ------------------------------------------------------------------------
\* Fallback cascade and batch generation
\* ------------------------------------------------------------------------
\* the same with the cooldown ignored at attempt 2 only
applyFallbacks_cooldownOnce(allSentences, scriptFilter, hskFilter, t, attempt, W, S) ==
    LET band == getDifficultyBand(countDueWords(t, W))
        relaxed == attempt \in 1..4
    IN  [ pool |-> getEligibleSentences(allSentences, scriptFilter, hskFilter, t,
                                        attempt = 2, attempt >= 4, S),
          k_min |-> IF relaxed THEN 1 ELSE band.k_min,
          k_max |-> IF relaxed THEN 6 ELSE band.k_max,
          theta |-> IF attempt \in 3..4 THEN theta_known_fallback ELSE theta_known ]

applyFallbacks(allSentences, scriptFilter, hskFilter, t, attempt, W, S) ==
    LET band == getDifficultyBand(countDueWords(t, W))
        relaxed == attempt \in 1..4
    IN  [ pool |-> getEligibleSentences(allSentences, scriptFilter, hskFilter, t,
                                        attempt >= 2, attempt >= 4, S),
          k_min |-> IF relaxed THEN 1 ELSE band.k_min,
          k_max |-> IF relaxed THEN 6 ELSE band.k_max,
          theta |-> IF attempt \in 3..4 THEN theta_known_fallback ELSE theta_known ]

\* fallback attempt 5: random selection from the corpus
AbsoluteFallback_sliceFirst(allSentences, r) ==
    LET picked == SelectSeq(Take(shuffle(allSentences, r), batch_size), NotAmbiguous)
    IN  [i \in 1..Len(picked) |->
            [ok |-> TRUE, sid |-> picked[i].id, score |-> 0, k |-> 0, last_seen_ts |-> 0]]
AbsoluteFallback(allSentences, r) ==
    LET picked == Take(SelectSeq(shuffle(allSentences, r), NotAmbiguous), batch_size)
    IN  [i \in 1..Len(picked) |->
            [ok |-> TRUE, sid |-> picked[i].id, score |-> 0, k |-> 0, last_seen_ts |-> 0]]

\* the highest fallbackAttempt the while loop may reach
MaxFallbackAttempt == 5

\* the while loop of generateSentenceBatch, entered with the candidates
\* scored so far and the attempts made so far
\* the condition of the while loop
LoopContinues_twice(scored, fallbackAttempt) ==
    Len(scored) < batch_size /\ fallbackAttempt < 2
LoopContinues(scored, fallbackAttempt) ==
    Len(scored) < batch_size /\ fallbackAttempt < MaxFallbackAttempt

RECURSIVE FallbackLoop(_, _, _, _, _, _, _, _, _, _)
FallbackLoop(scored, fallbackAttempt, allSentences, scriptFilter, hskFilter, t, k_cap, W, S, r) ==
    IF LoopContinues(scored, fallbackAttempt)
    THEN LET attempt == fallbackAttempt + 1
             fallback == applyFallbacks(allSentences, scriptFilter, hskFilter, t, attempt, W, S)
         IN  IF attempt = 5
             THEN [scored |-> AbsoluteFallback(allSentences, r), fallbacks |-> attempt]
             ELSE FallbackLoop(
                     scoreCandidates(Take(shuffle(fallback.pool, r), pool_sample_size),
                                     fallback.k_min, fallback.k_max, t,
                                     fallback.theta, k_cap, W, S),
                     attempt, allSentences, scriptFilter, hskFilter, t, k_cap, W, S, r)
    ELSE [scored |-> scored, fallbacks |-> fallbackAttempt]

NoQueue == [absent |-> TRUE]

\* generateSentenceBatch(allSentences, scriptFilter, hskFilter) started at
\* time t, reading the stores W and S, with random seed r: the queue it
\* resolves to, or the error it throws
generateSentenceBatch(allSentences, scriptFilter, hskFilter, t, W, S, r) ==
    IF Len(allSentences) = 0
    THEN [error |-> TRUE, queue |-> NoQueue, fallbacks |-> 0,
          k_band |-> [k_min |-> 0, k_max |-> 0]]
    ELSE LET band == getDifficultyBand(countDueWords(t, W))
             k_cap == getDynamicKCap(W)
             eligible == getEligibleSentences(allSentences, scriptFilter, hskFilter, t,
                                              FALSE, FALSE, S)
             pool == Take(shuffle(eligible, r), Min(Len(eligible), pool_sample_size))
             scored0 == scoreCandidates(pool, band.k_min, band.k_max, t, theta_known,
                                        k_cap, W, S)
             looped == FallbackLoop(scored0, 0, allSentences, scriptFilter, hskFilter,
                                    t, k_cap, W, S, r)
             selected == takeTopN(looped.scored, batch_size)
             shuffled == shuffle(selected, r)
         IN  [ error |-> FALSE,
               queue |-> [ sentences |-> [i \in 1..Len(shuffled) |-> shuffled[i].sid],
                           current_index |-> 0,
                           generated_at |-> t,
                           script_filter |-> scriptFilter,
                           hsk_filter |-> hskFilter ],
               fallbacks |-> looped.fallbacks,
               k_band |-> band ]

\* the same with the reads attempted before the corpus is looked at
RunEnd_readsFirst(gen, readsOk) ==
    IF ~readsOk
    THEN [thrown |-> "ReadFailed", queue |-> NoQueue, fallbacks |-> 0]
    ELSE IF gen.error
    THEN [thrown |-> "NoSentences", queue |-> NoQueue, fallbacks |-> 0]
    ELSE [thrown |-> "none", queue |-> gen.queue, fallbacks |-> gen.fallbacks]

\* How a generateSentenceBatch run (gen: what it computes) ends.  Nothing in the module catches an
\* error: with an empty corpus the run throws before its first read; when
\* the reads of db.words reject (readsOk false) the first of them, the
\* count of due words, throws; otherwise the run resolves to its queue.
RunEnd(gen, readsOk) ==
    IF gen.error
    THEN [thrown |-> "NoSentences", queue |-> NoQueue, fallbacks |-> 0]
    ELSE IF ~readsOk
    THEN [thrown |-> "ReadFailed", queue |-> NoQueue, fallbacks |-> 0]
    ELSE [thrown |-> "none", queue |-> gen.queue, fallbacks |-> gen.fallbacks]

BatchRun(allSentences, scriptFilter, hskFilter, t, W, S, r, readsOk) ==
    RunEnd(generateSentenceBatch(allSentences, scriptFilter, hskFilter, t, W, S, r),
           readsOk)

\* ------------------------------------------------------------------------
\* Corpora (the allSentences argument)
\* ------------------------------------------------------------------------
Sen(id, script_type, hskLevel, chars) ==
    [id |-> id, script_type |-> script_type, hskLevel |-> hskLevel, chars |-> chars]

\* eleven usable sentences, ten of them with a level tag, and two ambiguous
CorpusLarge ==
    << Sen(1, "simplified", "1", <<1>>),
       Sen(2, "simplified", "1", <<1, 2>>),
       Sen(3, "simplified", "2", <<2, 3>>),
       Sen(4, "neutral", "1", <<3>>),
       Sen(5, "neutral", "3", <<2, 0, 3>>),
       Sen(6, "traditional", "1", <<4>>),
       Sen(7, "traditional", "2", <<3, 4>>),
       Sen(8, "simplified", "", <<2>>),
       Sen(9, "neutral", "1", <<3, 3>>),
       Sen(10, "simplified", "1", <<2, 4>>),
       Sen(11, "ambiguous", "1", <<2>>),
       Sen(12, "neutral", "2", <<1, 3>>),
       Sen(13, "ambiguous", "2", <<3>>) >>

\* fewer sentences than batch_size, one of them ambiguous
CorpusSmall ==
    << Sen(1, "simplified", "1", <<1, 2>>),
       Sen(2, "ambiguous", "1", <<2>>),
       Sen(3, "traditional", "2", <<3>>) >>

\* nothing but ambiguous sentences
CorpusAmbiguous ==
    << Sen(1, "ambiguous", "1", <<1>>),
       Sen(2, "ambiguous", "2", <<2, 3>>) >>

Corpora == {CorpusLarge, CorpusSmall, CorpusAmbiguous}

\* ------------------------------------------------------------------------
\* Queue and prefetch state
\* ------------------------------------------------------------------------
MaxOrphans == 1        \* superseded prefetch runs that may still be running

VARIABLES
    corpus,             \* allSentences, as loaded by the page
    dbQueue,            \* db.queue record 1, or NoQueue
    nextBatchPromise,   \* the module variable: Null or the tracked promise
    orphanRuns,         \* prefetch runs no longer tracked but still running
    gns,                \* the running / last getNextSentence call
    superseded,         \* a tracked prefetch has been dropped by a filter change
    probe               \* a direct call of a selection function: inputs, result

queueVars == <<corpus, dbQueue, nextBatchPromise, orphanRuns, gns, superseded, probe>>
vars == <<now, ticks, words, sentences, att, prog, nRecorded, nFinished,
          corpus, dbQueue, nextBatchPromise, orphanRuns, gns, superseded, probe>>

NoProbe == [fn |-> "none"]

Null == [null |-> TRUE]
NoSid == [defined |-> FALSE, sid |-> 0]
Sid(n) == [defined |-> TRUE, sid |-> n]

\* thrown: the error a call that raised ended with ("NoSentences" from an
\* empty corpus, "ReadFailed" from a database read that rejected);
\* how: where the call's queue came from ("kept", "generated", "adopted");
\* oldRemaining: the ids a queue dropped by the filter check had left
GnsIdle ==
    [ pc |-> "idle", script_filter |-> "", hsk_filter |-> "", queue |-> NoQueue,
      ret |-> "none", sid |-> NoSid, thrown |-> "none",
      how |-> "none", fallbacks |-> 0, oldRemaining |-> {} ]

\* the filter signatures the page asks for
FilterSignatures ==
    { <<"simplified", "1">>, <<"simplified", "1-3">>, <<"mixed", "1-3">> }

Remaining(queue) ==
    { queue.sentences[i] : i \in (queue.current_index + 1)..Len(queue.sentences) }

InitQueue ==
    /\ corpus \in Corpora
    /\ dbQueue = NoQueue
    /\ nextBatchPromise = Null
    /\ orphanRuns = 0
    /\ gns = GnsIdle
    /\ superseded = FALSE
    /\ probe = NoProbe

SameFilter(queue, scriptFilter, hskFilter) ==
    queue.script_filter = scriptFilter /\ queue.hsk_filter = hskFilter

Exhausted(queue) == queue.current_index >= Len(queue.sentences)

\* Step 2: the tracked prefetch after the filter check
InvalidatedPromise_kept(queue, promise, scriptFilter, hskFilter) == promise
InvalidatedPromise(queue, promise, scriptFilter, hskFilter) ==
    IF queue # NoQueue /\ ~SameFilter(queue, scriptFilter, hskFilter)
    THEN Null ELSE promise

\* Step 2: the local queue after the filter check
InvalidatedQueue_always(queue, scriptFilter, hskFilter) == NoQueue
InvalidatedQueue(queue, scriptFilter, hskFilter) ==
    IF queue # NoQueue /\ ~SameFilter(queue, scriptFilter, hskFilter)
    THEN NoQueue ELSE queue

\* Step 4: whether a prefetch is started
StartsPrefetch_untracked(queue, promise) ==
    queue.current_index >= Len(queue.sentences) - prefetch_threshold
StartsPrefetch(queue, promise) ==
    /\ queue.current_index >= Len(queue.sentences) - prefetch_threshold
    /\ promise = Null

\* Steps 1-2: load the persisted queue, invalidate on a filter change
GNS_Load(scriptFilter, hskFilter) ==
    /\ gns.pc = "idle"
    /\ att.pc = "idle" /\ prog.pc = "idle"
    /\ LET queue == InvalidatedQueue(dbQueue, scriptFilter, hskFilter)
           promise == InvalidatedPromise(dbQueue, nextBatchPromise, scriptFilter, hskFilter)
           dropped == nextBatchPromise # Null /\ promise = Null
           orphaned == dropped /\ nextBatchPromise.state = "pending"
       IN  /\ orphaned => orphanRuns < MaxOrphans
           /\ nextBatchPromise' = promise
           /\ orphanRuns' = IF orphaned THEN orphanRuns + 1 ELSE orphanRuns
           /\ superseded' = (superseded \/ dropped)
           /\ gns' = [ GnsIdle EXCEPT
                         !.pc = IF queue = NoQueue \/ Exhausted(queue)
                                THEN "need" ELSE "draw",
                         !.script_filter = scriptFilter,
                         !.hsk_filter = hskFilter,
                         !.queue = queue,
                         !.how = IF queue = NoQueue \/ Exhausted(queue)
                                 THEN "none" ELSE "kept",
                         !.oldRemaining = IF dbQueue # NoQueue /\ queue = NoQueue
                                          THEN Remaining(dbQueue) ELSE {} ]
    /\ UNCHANGED <<masteryVars, probe, corpus, dbQueue>>

\* Step 3, no prefetch tracked: generate the batch now (blocking), persist it
AwaitGenerated(gen) ==
    IF gen.thrown # "none"
    THEN /\ gns' = [gns EXCEPT !.pc = "idle", !.ret = "raised", !.thrown = gen.thrown]
         /\ UNCHANGED dbQueue
    ELSE /\ gns' = [gns EXCEPT !.pc = "draw", !.queue = gen.queue,
                               !.how = "generated", !.fallbacks = gen.fallbacks]
         /\ dbQueue' = gen.queue

\* Step 3: the else branch of if (nextBatchPromise)
GeneratesNow_always(promise) == TRUE
GeneratesNow(promise) == promise = Null

GNS_Generate(r, readsOk) ==
    /\ gns.pc = "need"
    /\ GeneratesNow(nextBatchPromise)
    /\ AwaitGenerated(BatchRun(corpus, gns.script_filter, gns.hsk_filter,
                               now, words, sentences, r, readsOk))
    /\ UNCHANGED <<masteryVars, probe, corpus, nextBatchPromise, orphanRuns, superseded>>

\* Step 3, a prefetch is tracked but its run has thrown: the await throws,
\* the call raises; nextBatchPromise keeps the rejected promise
GNS_AwaitRejected ==
    /\ gns.pc = "need"
    /\ nextBatchPromise # Null
    /\ nextBatchPromise.state = "rejected"
    /\ gns' = [gns EXCEPT !.pc = "idle", !.ret = "raised",
                          !.thrown = nextBatchPromise.thrown]
    /\ UNCHANGED <<masteryVars, probe, corpus, dbQueue, nextBatchPromise, orphanRuns, superseded>>

\* Step 3, a prefetch is tracked: await it, adopt its queue, persist it
GNS_Adopt ==
    /\ gns.pc = "need"
    /\ nextBatchPromise # Null
    /\ nextBatchPromise.state = "fulfilled"
    /\ gns' = [gns EXCEPT !.pc = "draw", !.queue = nextBatchPromise.value,
                          !.how = "adopted",
                          !.fallbacks = nextBatchPromise.fallbacks]
    /\ dbQueue' = nextBatchPromise.value
    /\ nextBatchPromise' = Null
    /\ UNCHANGED <<masteryVars, probe, corpus, orphanRuns, superseded>>

\* Steps 4-5: start a prefetch if near the end, take the current id,
\* advance and persist the queue, return the id
GNS_Draw ==
    /\ gns.pc = "draw"
    /\ LET queue == gns.queue
           starts == StartsPrefetch(queue, nextBatchPromise)
           sid == IF queue.current_index + 1 \in 1..Len(queue.sentences)
                  THEN Sid(queue.sentences[queue.current_index + 1])
                  ELSE NoSid
           advanced == [queue EXCEPT !.current_index = queue.current_index + 1]
       IN  /\ nextBatchPromise' =
                 IF starts
                 THEN [ state |-> "pending", script_filter |-> gns.script_filter,
                        hsk_filter |-> gns.hsk_filter, t |-> now,
                        value |-> NoQueue, fallbacks |-> 0, thrown |-> "none" ]
                 ELSE nextBatchPromise
           /\ dbQueue' = advanced
           /\ gns' = [gns EXCEPT !.pc = "idle", !.queue = advanced, !.ret = "returned",
                                 !.sid = sid]
    /\ UNCHANGED <<masteryVars, probe, corpus, orphanRuns, superseded>>

\* the promise once its run has ended
Settled(promise, gen) ==
    IF gen.thrown # "none"
    THEN [promise EXCEPT !.state = "rejected", !.thrown = gen.thrown]
    ELSE [promise EXCEPT !.state = "fulfilled", !.value = gen.queue,
                         !.fallbacks = gen.fallbacks]

\* The tracked prefetch run finishes: its promise resolves or rejects
PrefetchComplete(r, readsOk) ==
    /\ nextBatchPromise # Null
    /\ nextBatchPromise.state = "pending"
    /\ nextBatchPromise' =
           Settled(nextBatchPromise,
                   BatchRun(corpus, nextBatchPromise.script_filter,
                            nextBatchPromise.hsk_filter, nextBatchPromise.t,
                            words, sentences, r, readsOk))
    /\ UNCHANGED <<masteryVars, probe, corpus, dbQueue, orphanRuns, gns, superseded>>

\* A superseded prefetch run finishes: nothing refers to its result
OrphanComplete ==
    /\ orphanRuns > 0
    /\ orphanRuns' = orphanRuns - 1
    /\ UNCHANGED <<masteryVars, probe, corpus, dbQueue, nextBatchPromise, gns, superseded>>

\* The user's full reset (settings page): the stored records and the queue
\* record are deleted; the module variable nextBatchPromise belongs to the
\* running page and is not touched
ResetDatabase ==
    /\ gns.pc = "idle"
    /\ att.pc = "idle" /\ prog.pc = "idle"
    /\ dbQueue # NoQueue
    /\ dbQueue' = NoQueue
    /\ words' = EmptyWords
    /\ sentences' = EmptySentences
    /\ UNCHANGED <<now, ticks, att, prog, nRecorded, nFinished>>
    /\ UNCHANGED <<probe, corpus, nextBatchPromise, orphanRuns, gns, superseded>>

\* ------------------------------------------------------------------------
\* The selection functions called on their own
\* ------------------------------------------------------------------------

\* Word stores of learners at the four mastery tiers, and of a learner with
\* a review backlog at and just over due_cap
NoWords == << >>
Repeat(x, n) == [i \in 1..n |-> x]

IntermediateWords == [c \in 1..2 |-> Practised(initializeWord(c, 0), 4, 0)]
AdvancedWords == [c \in 1..1 |-> Practised(initializeWord(c, 0), 12, 0)]
BacklogWords(n) == [c \in 1..n |-> updateMastery(initializeWord(c, 0), FALSE, 0)]

\* char 1 after four correct attempts, a wrong one and a correct one: its
\* mastery lies between the lowered and the normal threshold
WaveringWords ==
    [c \in 1..1 |->
        updateMastery(updateMastery(Practised(initializeWord(c, 0), 4, 0), FALSE, 0),
                      TRUE, 0)]

\* sentence 1 passed once, sentence 2 passed twice (skipped as mastered)
MasteredSentences ==
    [sid \in 1..2 |->
        IF sid = 1 THEN updateSentence(initializeSentence(1, 0), SCALE, 0)
        ELSE updateSentence(updateSentence(initializeSentence(2, 0), SCALE, 0), SCALE, 0)]

TierStores == {NoWords, VeteranWords, IntermediateWords, AdvancedWords}
SelectionStores == TierStores \cup {BacklogWords(due_cap), BacklogWords(due_cap + 1)}

\* Sentences handed to scoreSentence: short ones, and long ones of one
\* repeated char that reach past each cap
ScoredSentences ==
    { Sen(1, "simplified", "1", <<1>>),
      Sen(2, "simplified", "1", <<1, 2>>),
      Sen(5, "neutral", "3", <<2, 0, 3>>),
      Sen(21, "simplified", "2", Repeat(3, 9)),
      Sen(22, "simplified", "2", Repeat(1, 9)),
      Sen(23, "simplified", "3", Repeat(3, 11)),
      Sen(24, "simplified", "3", Repeat(2, 13)) }

\* sentence 1 passed and then failed: seen twice, ewma_pass below the skip
\* threshold
StrugglingSentences ==
    [sid \in 1..1 |-> updateSentence(updateSentence(initializeSentence(1, 0), SCALE, 0), 0, 0)]

\* the inputs of getEligibleSentences: every script mode, times within, at
\* and past the cooldown, learners with and without mastered sentences
EligibleFilters == FilterSignatures \cup { <<"traditional", "1-2">> }
EligibleTimes == {0, TICK, cooldown_minutes, 3 * DAY}
EligibleStores ==
    {EmptySentences, VeteranSentences, MasteredSentences, StrugglingSentences}

\* no simplified sentence and none of level 1: both filter fall-backs
CorpusTraditional ==
    << Sen(1, "traditional", "2", <<3>>),
       Sen(2, "ambiguous", "1", <<2>>),
       Sen(3, "traditional", "3", <<1, 3>>) >>

\* more sentences than a batch holds, two of them alike but for the id
CorpusLong ==
    CorpusLarge \o << Sen(14, "simplified", "1", <<1, 2>>),
                      Sen(15, "neutral", "2", <<2, 2, 3>>) >>

SelectionCorpora == Corpora \cup {CorpusTraditional, CorpusLong}
SelectionTimes == {0, 3 * DAY}
Bands == { [k_min |-> k_min, k_max |-> k_max],
           [k_min |-> k_min_backlog, k_max |-> k_max_backlog] }
\* the two bands of getDifficultyBand and the band of the fallback steps
FallbackBands == Bands \cup { [k_min |-> 1, k_max |-> 6] }
KCaps == { k_cap_by_mastery[tier].k_cap : tier \in DOMAIN k_cap_by_mastery }

probeFrame ==
    <<masteryVars, corpus, dbQueue, nextBatchPromise, orphanRuns, gns, superseded>>

ScoreSentenceCall(sentence, band, theta, k_cap, t, W, S) ==
    /\ probe = NoProbe
    /\ probe' = [ fn |-> "scoreSentence", sentence |-> sentence, band |-> band,
                  theta |-> theta, k_cap |-> k_cap, t |-> t, W |-> W, S |-> S,
                  result |-> scoreSentence(sentence, band.k_min, band.k_max, t,
                                           theta, k_cap, W, S) ]
    /\ UNCHANGED probeFrame

\* scoreSentence for one sentence and state under two bands
ScoreBandsCall(sentence, bandA, bandB, theta, k_cap, t, W, S) ==
    /\ probe = NoProbe
    /\ bandA # bandB
    /\ probe' = [ fn |-> "scoreSentence twice", sentence |-> sentence,
                  bandA |-> bandA, bandB |-> bandB,
                  a |-> scoreSentence(sentence, bandA.k_min, bandA.k_max, t,
                                      theta, k_cap, W, S),
                  b |-> scoreSentence(sentence, bandB.k_min, bandB.k_max, t,
                                      theta, k_cap, W, S) ]
    /\ UNCHANGED probeFrame

\* getDynamicKCap for the stores of two learners
GetDynamicKCapCalls(Wa, Wb) ==
    /\ probe = NoProbe
    /\ probe' = [ fn |-> "getDynamicKCap",
                  a |-> [avg |-> getAverageMastery(Wa), k_cap |-> getDynamicKCap(Wa)],
                  b |-> [avg |-> getAverageMastery(Wb), k_cap |-> getDynamicKCap(Wb)] ]
    /\ UNCHANGED probeFrame

EligibleCall(allSentences, scriptFilter, hskFilter, t, ignoreCooldown, ignoreSkip, S) ==
    /\ probe = NoProbe
    /\ probe' = [ fn |-> "getEligibleSentences", allSentences |-> allSentences,
                  scriptFilter |-> scriptFilter, hskFilter |-> hskFilter,
                  t |-> t, ignoreCooldown |-> ignoreCooldown,
                  ignoreSkip |-> ignoreSkip, S |-> S,
                  filtered |-> scriptFiltered(allSentences, scriptFilter),
                  levelled |-> hskFiltered(scriptFiltered(allSentences, scriptFilter),
                                           hskFilter),
                  result |-> getEligibleSentences(allSentences, scriptFilter, hskFilter,
                                                  t, ignoreCooldown, ignoreSkip, S) ]
    /\ UNCHANGED probeFrame

BatchCall(allSentences, scriptFilter, hskFilter, t, W, S, r) ==
    /\ probe = NoProbe
    /\ Len(allSentences) > 0
    /\ probe' = [ fn |-> "generateSentenceBatch", allSentences |-> allSentences,
                  scriptFilter |-> scriptFilter, hskFilter |-> hskFilter,
                  t |-> t, W |-> W, S |-> S, r |-> r,
                  result |-> generateSentenceBatch(allSentences, scriptFilter,
                                                   hskFilter, t, W, S, r) ]
    /\ UNCHANGED probeFrame

\* The cascade laid out: for the initial pass (0) and the fallback attempts
\* 1..4, the pool getEligibleSentences yields and what scoreCandidates
\* makes of the whole pool
CascadePool(allSentences, scriptFilter, hskFilter, t, attempt, W, S) ==
    IF attempt = 0
    THEN getEligibleSentences(allSentences, scriptFilter, hskFilter, t, FALSE, FALSE, S)
    ELSE applyFallbacks(allSentences, scriptFilter, hskFilter, t, attempt, W, S).pool

ScoreFallback(fallback, t, k_cap, W, S) ==
    scoreCandidates(fallback.pool, fallback.k_min, fallback.k_max, t,
                    fallback.theta, k_cap, W, S)

ScoreInitial(pool, band, t, k_cap, W, S) ==
    scoreCandidates(pool, band.k_min, band.k_max, t, theta_known, k_cap, W, S)

CascadeScored(allSentences, scriptFilter, hskFilter, t, attempt, W, S) ==
    IF attempt = 0
    THEN ScoreInitial(getEligibleSentences(allSentences, scriptFilter, hskFilter, t,
                                           FALSE, FALSE, S),
                      getDifficultyBand(countDueWords(t, W)), t, getDynamicKCap(W), W, S)
    ELSE ScoreFallback(applyFallbacks(allSentences, scriptFilter, hskFilter, t,
                                      attempt, W, S),
                       t, getDynamicKCap(W), W, S)

SentenceIds(pool) == { pool[i].id : i \in DOMAIN pool }
ScoredIds(scored) == { scored[i].sid : i \in DOMAIN scored }

CascadeCall(allSentences, scriptFilter, hskFilter, t, W, S) ==
    /\ probe = NoProbe
    /\ probe' = [ fn |-> "applyFallbacks", allSentences |-> allSentences,
                  scriptFilter |-> scriptFilter, hskFilter |-> hskFilter,
                  t |-> t, W |-> W, S |-> S,
                  pools |-> [attempt \in 0..4 |->
                               SentenceIds(CascadePool(allSentences, scriptFilter,
                                                       hskFilter, t, attempt, W, S))],
                  scorable |-> [attempt \in 0..4 |->
                                  ScoredIds(CascadeScored(allSentences, scriptFilter,
                                                          hskFilter, t, attempt, W, S))] ]
    /\ UNCHANGED probeFrame

\* the call's result is dropped
ProbeReturn ==
    /\ probe # NoProbe
    /\ probe' = NoProbe
    /\ UNCHANGED probeFrame

\* ------------------------------------------------------------------------
\* Specifications
\* ------------------------------------------------------------------------
Init == InitMastery /\ InitQueue

NextMastery ==
    \/ Tick /\ UNCHANGED queueVars
    \/ \E attempts \in Attempts : RSA_Call(attempts) /\ UNCHANGED queueVars
    \/ RSA_Step /\ UNCHANGED queueVars
    \/ RSA_Commit /\ UNCHANGED queueVars
    \/ RSA_Fail /\ UNCHANGED queueVars
    \/ \E sid \in Sids, score \in Scores : RSP_Call(sid, score) /\ UNCHANGED queueVars
    \/ RSP_Get /\ UNCHANGED queueVars
    \/ RSP_Put /\ UNCHANGED queueVars
    \/ RSP_Fail /\ UNCHANGED queueVars

\* results of the Chinese characters of a sentence, in order
Results(chars) ==
    [1..chineseCharsBefore(chars, Len(chars) + 1) -> BOOLEAN]

NextPractice ==
    \/ \E sid \in Sids, chars \in PracticeChars :
          \E results \in Results(chars) :
             FinishSentence(sid, chars, results) /\ UNCHANGED queueVars
    \/ RSA_Step /\ UNCHANGED queueVars
    \/ RSA_Commit /\ UNCHANGED queueVars
    \/ RSA_Fail /\ UNCHANGED queueVars
    \/ RSP_Get /\ UNCHANGED queueVars
    \/ RSP_Put /\ UNCHANGED queueVars
    \/ RSP_Fail /\ UNCHANGED queueVars

NextQueue ==
    \/ \E f \in FilterSignatures : GNS_Load(f[1], f[2])
    \/ \E r \in Rnds, readsOk \in BOOLEAN : GNS_Generate(r, readsOk)
    \/ GNS_AwaitRejected
    \/ GNS_Adopt
    \/ GNS_Draw
    \/ \E r \in Rnds, readsOk \in BOOLEAN : PrefetchComplete(r, readsOk)
    \/ OrphanComplete

\* Drawing sentences in a session in which the user may reset all data
NextReset ==
    \/ NextQueue
    \/ ResetDatabase

\* Recording attempts and progress against the stores; no sentence is
\* drawn, so one corpus stands for all
InitRecording == Init /\ corpus = CorpusLarge

SpecMastery == InitRecording /\ [][NextMastery]_vars

\* Drawing sentences: the queue and its prefetch
SpecQueue == Init /\ [][NextQueue]_vars

SpecReset == Init /\ [][NextReset]_vars

\* A practice session: each sentence drawn is practised and, when finished,
\* recorded by the page's effect, while time passes
SentenceChars(allSentences, sid) ==
    LET i == CHOOSE j \in DOMAIN allSentences : allSentences[j].id = sid
    IN  allSentences[i].chars

FinishReturned ==
    /\ gns.pc = "idle"
    /\ gns.ret = "returned"
    /\ gns.sid.defined
    /\ gns.sid.sid \in Sids
    /\ LET chars == SentenceChars(corpus, gns.sid.sid)
       IN  \E results \in Results(chars) : FinishSentence(gns.sid.sid, chars, results)
    /\ UNCHANGED queueVars

\* a generation run takes milliseconds: none is in flight across a tick
SessionTick ==
    /\ gns.pc = "idle"
    /\ nextBatchPromise # Null => nextBatchPromise.state # "pending"
    /\ Tick
    /\ UNCHANGED queueVars

NextSession ==
    \/ NextQueue
    \/ FinishReturned
    \/ RSA_Step /\ UNCHANGED queueVars
    \/ RSA_Commit /\ UNCHANGED queueVars
    \/ RSA_Fail /\ UNCHANGED queueVars
    \/ RSP_Get /\ UNCHANGED queueVars
    \/ RSP_Put /\ UNCHANGED queueVars
    \/ RSP_Fail /\ UNCHANGED queueVars
    \/ SessionTick

InitSession ==
    /\ InitMastery
    /\ words = EmptyWords
    /\ sentences = EmptySentences
    /\ corpus = CorpusLong
    /\ dbQueue = NoQueue
    /\ nextBatchPromise = Null
    /\ orphanRuns = 0
    /\ gns = GnsIdle
    /\ superseded = FALSE
    /\ probe = NoProbe

SpecSession == InitSession /\ [][NextSession]_vars

\* A page load that finds what an earlier session persisted: the queue
\* record of db.queue (absent, used up, or with one id left) and a corpus
\* that loaded or came back empty
EmptyCorpus == << >>

StoredQueue(ids, idx, scriptFilter, hskFilter) ==
    [ sentences |-> ids, current_index |-> idx, generated_at |-> 0,
      script_filter |-> scriptFilter, hsk_filter |-> hskFilter ]

StoredQueues ==
    { NoQueue,
      StoredQueue(<<1>>, 1, "simplified", "1"),
      StoredQueue(<<3, 1>>, 1, "mixed", "1-3") }

InitReload ==
    /\ InitMastery
    /\ words = EmptyWords
    /\ sentences = EmptySentences
    /\ corpus \in {EmptyCorpus, CorpusSmall}
    /\ dbQueue \in StoredQueues
    /\ nextBatchPromise = Null
    /\ orphanRuns = 0
    /\ gns = GnsIdle
    /\ superseded = FALSE
    /\ probe = NoProbe

SpecReload == InitReload /\ [][NextQueue]_vars

\* The selection functions on chosen inputs
NextSelection ==
    \/ \E sentence \in ScoredSentences, band \in Bands,
          theta \in {theta_known, theta_known_fallback}, k_cap \in KCaps,
          t \in SelectionTimes, W \in TierStores,
          S \in {EmptySentences, VeteranSentences} :
            ScoreSentenceCall(sentence, band, theta, k_cap, t, W, S)
    \/ \E sentence \in ScoredSentences, bandA \in FallbackBands, bandB \in FallbackBands,
          theta \in {theta_known, theta_known_fallback}, k_cap \in KCaps,
          t \in SelectionTimes, W \in TierStores,
          S \in {EmptySentences, VeteranSentences} :
            ScoreBandsCall(sentence, bandA, bandB, theta, k_cap, t, W, S)
    \/ \E Wa \in TierStores, Wb \in TierStores : GetDynamicKCapCalls(Wa, Wb)
    \/ \E allSentences \in SelectionCorpora, f \in EligibleFilters,
          t \in EligibleTimes, ignoreCooldown \in BOOLEAN, ignoreSkip \in BOOLEAN,
          S \in EligibleStores :
            EligibleCall(allSentences, f[1], f[2], t, ignoreCooldown, ignoreSkip, S)
    \/ \E allSentences \in SelectionCorpora, f \in FilterSignatures,
          t \in SelectionTimes, W \in SelectionStores, r \in Rnds :
            BatchCall(allSentences, f[1], f[2], t, W, VeteranSentences, r)
    \/ \E allSentences \in SelectionCorpora, f \in FilterSignatures,
          t \in SelectionTimes, W \in {NoWords, WaveringWords}, r \in Rnds :
            BatchCall(allSentences, f[1], f[2], t, W, MasteredSentences, r)
    \/ \E allSentences \in SelectionCorpora, f \in FilterSignatures,
          t \in SelectionTimes, W \in TierStores \cup {WaveringWords},
          S \in {EmptySentences, VeteranSentences, MasteredSentences} :
            CascadeCall(allSentences, f[1], f[2], t, W, S)
    \/ ProbeReturn

InitSelection == InitRecording /\ words = EmptyWords /\ sentences = EmptySentences

SpecSelection == InitSelection /\ [][NextSelection]_vars

\* The practice page recording finished sentences
SpecPractice == InitRecording /\ [][NextPractice]_vars

Next == NextMastery \/ NextPractice \/ NextReset \/ NextSession \/ NextSelection

Spec == Init /\ [][Next]_vars

\* ------------------------------------------------------------------------
\* Properties
\* ------------------------------------------------------------------------
NonAmbiguousCount == Len(SelectSeq(corpus, NotAmbiguous))

PrefetchPending == nextBatchPromise # Null /\ nextBatchPromise.state = "pending"

\* prefetch runs of generateSentenceBatch that have not finished
RunsInFlight == orphanRuns + (IF PrefetchPending THEN 1 ELSE 0)

\* C1: a queue adopted from a prefetch was generated for the filter
\* signature of the getNextSentence call that adopts it, also after the
\* signature changed while a prefetch was in flight.
C1_NoStaleAdoption ==
    gns.how = "adopted" =>
        SameFilter(gns.queue, gns.script_filter, gns.hsk_filter)

\* a prefetch was dropped by a filter change, and a later call has adopted
\* a prefetch and returned
C1_Witness ==
    superseded /\ gns.how = "adopted" /\ gns.ret = "returned"

\* C2: every draw returns the id at current_index of the active queue and
\* advances the persisted current_index by one, the ids of the queue
\* staying as stored; the persisted queue is replaced by another one for
\* the same filter signature only once it is exhausted.
C2_DrawsInStoredOrder ==
    [][ /\ (gns.pc = "draw" /\ gns'.pc = "idle") =>
            /\ gns.queue.current_index < Len(gns.queue.sentences)
            /\ gns'.sid = Sid(gns.queue.sentences[gns.queue.current_index + 1])
            /\ dbQueue'.sentences = gns.queue.sentences
            /\ dbQueue'.current_index = gns.queue.current_index + 1
        /\ (/\ dbQueue # NoQueue
            /\ gns'.pc = "draw"
            /\ gns.pc = "need"
            /\ SameFilter(dbQueue, gns.script_filter, gns.hsk_filter)) =>
                /\ dbQueue.current_index = Len(dbQueue.sentences)
                /\ dbQueue' = gns'.queue
                /\ dbQueue'.current_index = 0
      ]_vars

\* C3: the persisted queue has 0 <= current_index <= length(sentences),
\* and a call that returns has returned a defined id.
C3_IndexInRange ==
    /\ dbQueue # NoQueue =>
          /\ 0 <= dbQueue.current_index
          /\ dbQueue.current_index <= Len(dbQueue.sentences)
    /\ gns.ret = "returned" => gns.sid.defined

\* C4 as claimed: at most one prefetch run is in flight at every point.
C4_AtMostOneRun == RunsInFlight <= 1

\* a prefetch is started by this step
PrefetchStarted ==
    /\ nextBatchPromise' # nextBatchPromise
    /\ nextBatchPromise' # Null
    /\ nextBatchPromise'.state = "pending"

\* C4 as amended: a prefetch is started only when no prefetch is tracked
\* in nextBatchPromise and only when, before the draw, at most
\* prefetch_threshold ids remain; so at most one run is tracked, while runs
\* superseded by a filter change may still be running untracked.
C4_StartsOnlyUntracked ==
    [][ PrefetchStarted =>
            /\ nextBatchPromise = Null
            /\ gns.pc = "draw"
            /\ Len(gns.queue.sentences) - gns.queue.current_index <= prefetch_threshold
      ]_vars

\* a tracked prefetch is pending while a superseded run is still running
C4_Witness == PrefetchPending /\ orphanRuns >= 1

\* C5: a call that found a persisted queue of another filter signature
\* returns none of the ids that queue had left; after every call that
\* returned, the persisted queue carries the call's script and level
\* filters and the returned id is one of its ids.
C5_FilterChangeRegenerates ==
    gns.ret = "returned" =>
        /\ SameFilter(dbQueue, gns.script_filter, gns.hsk_filter)
        /\ gns.sid.defined
        /\ gns.sid.sid \in { dbQueue.sentences[i] : i \in 1..Len(dbQueue.sentences) }
        /\ gns.sid.sid \notin gns.oldRemaining

\* the queue a generation run has just produced, with its fallback count
FreshQueues ==
    (IF gns.pc = "draw" /\ gns.how \in {"generated", "adopted"}
     THEN {[queue |-> gns.queue, fallbacks |-> gns.fallbacks]} ELSE {})
    \cup
    (IF nextBatchPromise # Null /\ nextBatchPromise.state = "fulfilled"
     THEN {[queue |-> nextBatchPromise.value, fallbacks |-> nextBatchPromise.fallbacks]}
     ELSE {})

\* C6 as claimed: the loop makes at most 5 fallback attempts, and a queue
\* produced at attempt 5 has batch_size ids, or as many as the corpus has
\* sentences when that is fewer.
C6_Step5FillsFromCorpus ==
    \A g \in FreshQueues :
        /\ g.fallbacks <= 5
        /\ g.fallbacks = 5 => Len(g.queue.sentences) = Min(batch_size, Len(corpus))

\* C6 as amended: the loop makes at most 5 fallback attempts, and a queue
\* produced at attempt 5 has batch_size ids, or as many as the corpus has
\* non-ambiguous sentences when that is fewer.
C6_Step5FillsFromNonAmbiguous ==
    \A g \in FreshQueues :
        /\ g.fallbacks <= 5
        /\ g.fallbacks = 5 => Len(g.queue.sentences) = Min(batch_size, NonAmbiguousCount)

\* attempt 5 was reached on a corpus with more than batch_size sentences,
\* some of them ambiguous, and on one with fewer
C6_Witness ==
    \E g \in FreshQueues :
        /\ g.fallbacks = 5
        /\ Len(corpus) > batch_size
        /\ NonAmbiguousCount < Len(corpus)
        /\ Len(g.queue.sentences) = batch_size

\* C7: every stored word record has s and ewma_success in [0,1] and
\* stability_days in [MIN_STABILITY, MAX_STABILITY]; every stored sentence
\* record has ewma_pass in [0,1].
C7_RecordsInRange ==
    /\ \A c \in StoredWords(words) :
          /\ 0 <= words[c].s /\ words[c].s <= SCALE
          /\ 0 <= words[c].ewma_success /\ words[c].ewma_success <= SCALE
          /\ MIN_STABILITY <= words[c].stability_days
          /\ words[c].stability_days <= MAX_STABILITY
    /\ \A sid \in Sids :
          sentences[sid] # NoRec =>
              0 <= sentences[sid].ewma_pass /\ sentences[sid].ewma_pass <= SCALE

\* a stability clamp has acted in an update (a record sits at the minimum
\* after its second wrong attempt, or at the maximum after a thirteenth
\* correct one) and a sentence's ewma_pass has been smoothed
C7_Witness ==
    /\ \E c \in StoredWords(words) :
          \/ words[c].stability_days = MIN_STABILITY /\ words[c].n_attempts = 2
          \/ words[c].stability_days = MAX_STABILITY /\ words[c].n_attempts = 13
    /\ \E sid \in Sids :
          /\ sentences[sid] # NoRec
          /\ sentences[sid].seen_count = 2
          /\ sentences[sid].ewma_pass < SCALE

BatchIds(attempts) == { attempts[i][1] : i \in 1..Len(attempts) }

AllCorrect(attempts, c) ==
    \A i \in 1..Len(attempts) : attempts[i][1] = c => attempts[i][2]

\* the n_attempts a record had when the running call began
AttemptsBefore(c) == IF att.before[c] = NoRec THEN 0 ELSE att.before[c].n_attempts

CorrectBefore(c) == IF att.before[c] = NoRec THEN 0 ELSE att.before[c].n_correct

\* C8: when a recordSentenceAttempt call commits, every char id of its
\* batch has been updated exactly once (n_attempts one higher than before
\* the call), with outcome correct iff every attempt on that id in the
\* batch was correct, whatever the order of the attempts.
C8_DuplicatesCollapse ==
    [][ (att.pc = "tx" /\ att'.outcome = "committed") =>
            \A c \in BatchIds(att.attempts) :
                LET all == AllCorrect(att.attempts, c)
                IN  /\ words'[c] # NoRec
                    /\ words'[c].n_attempts = AttemptsBefore(c) + 1
                    /\ words'[c].n_correct = CorrectBefore(c) + (IF all THEN 1 ELSE 0)
                    /\ words'[c].last_outcome = (IF all THEN "correct" ELSE "wrong")
      ]_vars

\* a call has committed a batch in which an id was attempted wrong and
\* then correct
C8_Witness == att.outcome = "committed" /\ att.mixed

\* C9: whatever step is taken while a recordSentenceAttempt call is
\* running (a write inside the transaction, its commit, its failure, or a
\* step of anything else), the stored word records afterwards either all
\* carry the call's update for the unique ids of its batch, or none does.
C9_AllOrNothing ==
    [][ att.pc = "tx" =>
            LET ids == BatchIds(att.attempts)
            IN  \/ \A c \in ids : words'[c] = att.before[c]
                \/ \A c \in ids :
                      words'[c] # NoRec /\ words'[c].n_attempts = AttemptsBefore(c) + 1
      ]_vars

\* a call failed after it had written one id of its batch inside the
\* transaction and before it had written them all
C9_Witness == att.outcome = "failed" /\ att.written = 1 /\ words # EmptyWords

\* C10: recordSentenceAttempt and recordSentenceProgress never raise: a
\* call in which a read or write fails returns normally and leaves the
\* stored word and sentence records as they were.
C10_FailuresSwallowed ==
    [][ /\ (att.pc = "tx" /\ att'.outcome = "failed") =>
              /\ att'.result = "returned"
              /\ words' = att.before
              /\ sentences' = sentences
        /\ (prog.pc # "idle" /\ prog'.outcome = "failed") =>
              /\ prog'.result = "returned"
              /\ words' = words
              /\ sentences' = sentences
      ]_vars

\* both calls have failed and returned, recordSentenceAttempt after a
\* write inside its transaction
C10_Witness ==
    /\ att.outcome = "failed" /\ att.written >= 1 /\ att.result = "returned"
    /\ prog.outcome = "failed" /\ prog.result = "returned"


\* ------------------------------------------------------------------------
\* The practice page's two writes for a finished sentence
\* ------------------------------------------------------------------------

\* C11: the word-mastery writes and the sentence-progress write of one
\* finished sentence are one atomic transaction: once both record calls of
\* the sentence have ended, either both stored their records or neither did.
C11_OneTransaction ==
    (nFinished > 0 /\ att.pc = "idle" /\ prog.pc = "idle") =>
        ((att.outcome = "committed") <=> (prog.outcome = "committed"))

\* C20: the score handed to recordSentenceProgress is the mean over the
\* sentence's unique char ids of the minimum outcome of each id; it is a
\* pass score exactly when every collapsed outcome recordSentenceAttempt
\* applies is correct; the record is written as passed exactly on a pass
\* score.
C20_ScoreIsMeanOfMin ==
    [][ /\ nFinished' # nFinished =>
              LET ids == BatchIds(att'.attempts)
                  right == { c \in ids : AllCorrect(att'.attempts, c) }
              IN  /\ ids # {} =>
                        prog'.score = (Cardinality(right) * SCALE) \div Cardinality(ids)
                  /\ (prog'.score >= SCALE) <=>
                        \A i \in 1..Len(att'.unique) : att'.unique[i][2]
        /\ (prog.pc = "put" /\ prog'.outcome = "committed") =>
              /\ (sentences'[prog.sid].last_outcome = "pass") <=> (prog.score >= SCALE)
              /\ sentences'[prog.sid].pass_count =
                    prog.sentence.pass_count + (IF prog.score >= SCALE THEN 1 ELSE 0)
      ]_vars

\* C20, for sentences with at least one char id: as above, and a sentence
\* without any char id gets the score 0 and is written as failed.
C20_ScoreIsMeanOfMinNonEmpty ==
    [][ /\ nFinished' # nFinished =>
              LET ids == BatchIds(att'.attempts)
                  right == { c \in ids : AllCorrect(att'.attempts, c) }
              IN  /\ ids # {} =>
                        prog'.score = (Cardinality(right) * SCALE) \div Cardinality(ids)
                  /\ ids = {} => prog'.score = 0
                  /\ (prog'.score >= SCALE) <=>
                        /\ ids # {}
                        /\ \A i \in 1..Len(att'.unique) : att'.unique[i][2]
        /\ (prog.pc = "put" /\ prog'.outcome = "committed") =>
              /\ (sentences'[prog.sid].last_outcome = "pass") <=> (prog.score >= SCALE)
              /\ sentences'[prog.sid].pass_count =
                    prog.sentence.pass_count + (IF prog.score >= SCALE THEN 1 ELSE 0)
      ]_vars

\* a sentence in which a char id was answered wrong and then correct, next
\* to a second id answered correctly, has been recorded with half the score
C20_Witness ==
    /\ nFinished = 1
    /\ prog.outcome = "committed"
    /\ att.outcome = "committed" /\ att.mixed /\ att.written = 2
    /\ \E sid \in Sids :
          /\ sentences[sid] # NoRec
          /\ sentences[sid].last_outcome = "fail"
          /\ sentences[sid].cumulative_score \in {SCALE \div 2, SCALE + (SCALE \div 2)}

\* C15: with an empty corpus a generation run ends with the explicit
\* no-sentences error, also when the database reads would have failed (it
\* throws before any read); a getNextSentence call that needed a new queue
\* raises that error and leaves the persisted queue record as it was.
C15_EmptyCorpusFails ==
    [][ /\ (Len(corpus) = 0 /\ gns.pc = "need" /\ gns'.pc # "need") =>
            /\ gns'.ret = "raised"
            /\ gns'.thrown = "NoSentences"
            /\ dbQueue' = dbQueue
        /\ (Len(corpus) = 0 /\ PrefetchPending /\ nextBatchPromise' # Null
                /\ nextBatchPromise'.state # "pending") =>
            /\ nextBatchPromise'.state = "rejected"
            /\ nextBatchPromise'.thrown = "NoSentences"
            /\ dbQueue' = dbQueue
      ]_vars

\* a call raised the no-sentences error and the persisted queue of the
\* earlier session is still there
C15_Witness ==
    /\ Len(corpus) = 0
    /\ gns.ret = "raised"
    /\ gns.thrown = "NoSentences"
    /\ dbQueue \in StoredQueues \ {NoQueue}

\* C16: a database read that fails while a batch is generated aborts
\* neither the generation run nor the getNextSentence call waiting for it.
C16_FailedReadTolerated ==
    /\ gns.thrown # "ReadFailed"
    /\ nextBatchPromise # Null => nextBatchPromise.thrown # "ReadFailed"

\* ------------------------------------------------------------------------
\* Review times and success rates of the stored records
\* ------------------------------------------------------------------------

\* C17: every stored word record has its next review exactly its stability
\* (in days) after the time it was last seen.
C17_NextReviewFromStability ==
    \A c \in CharIds :
        words[c] # NoRec =>
            words[c].next_review_ts =
                words[c].last_seen_ts + StabilityMs(words[c].stability_days)

\* a record written after the clock advanced, with a stability other than
\* the initial one
C17_Witness ==
    \E c \in CharIds :
        /\ words[c] # NoRec
        /\ words[c].last_seen_ts > 0
        /\ words[c].stability_days # INITIAL_STABILITY
        /\ words[c].next_review_ts > words[c].last_seen_ts

\* C18: the first attempt on an item sets ewma_success to the outcome
\* itself (1 or 0) and only later attempts smooth it with beta; the first
\* score of a sentence sets ewma_pass to that score and only later scores
\* smooth it with gamma.
C18_FirstAttemptSetsEwma ==
    [][ /\ \A c \in CharIds :
              (words'[c] # words[c] /\ words'[c] # NoRec) =>
                  LET e == IF words'[c].last_outcome = "correct" THEN SCALE ELSE 0
                      old == words[c].ewma_success
                  IN  IF words[c] = NoRec
                      THEN words'[c].n_attempts = 1 /\ words'[c].ewma_success = e
                      ELSE /\ words[c].n_attempts >= 1
                           /\ words'[c].ewma_success =
                                  Max(0, Min(SCALE, old + ((e - old) * BETA.num) \div BETA.den))
        /\ \A sid \in Sids :
              (sentences'[sid] # sentences[sid] /\ sentences'[sid] # NoRec) =>
                  LET old == sentences[sid].ewma_pass
                  IN  IF sentences[sid] = NoRec
                      THEN /\ sentences'[sid].seen_count = 1
                           /\ sentences'[sid].ewma_pass = prog.score
                      ELSE /\ sentences[sid].seen_count >= 1
                           /\ sentences'[sid].ewma_pass =
                                  Max(0, Min(SCALE, old + ((prog.score - old) * GAMMA.num)
                                                            \div GAMMA.den))
      ]_vars

\* a first attempt, correct, left the rate at 1; a second score of a
\* sentence left a smoothed rate strictly between 0 and 1
C18_Witness ==
    /\ \E c \in CharIds :
          /\ words[c] # NoRec
          /\ words[c].n_attempts = 1
          /\ words[c].last_outcome = "correct"
          /\ words[c].ewma_success = SCALE
    /\ \E sid \in Sids :
          /\ sentences[sid] # NoRec
          /\ sentences[sid].seen_count = 2
          /\ sentences[sid].ewma_pass > 0
          /\ sentences[sid].ewma_pass < SCALE

\* ------------------------------------------------------------------------
\* Scoring, the dynamic cap, eligibility and the difficulty band
\* ------------------------------------------------------------------------

C14_AmbiguousExcluded ==
    /\ probe.fn = "getEligibleSentences" =>
          \A i \in DOMAIN probe.result : probe.result[i].script_type # "ambiguous"
    /\ probe.fn = "generateSentenceBatch" =>
          \A i \in DOMAIN probe.result.queue.sentences :
              \A j \in DOMAIN probe.allSentences :
                  probe.allSentences[j].id = probe.result.queue.sentences[i] =>
                      probe.allSentences[j].script_type # "ambiguous"

\* the script fall-back was taken over a corpus that has an ambiguous
\* sentence, and sentences were returned
C14_Witness ==
    /\ probe.fn = "getEligibleSentences"
    /\ probe.allSentences = CorpusTraditional
    /\ probe.scriptFilter = "simplified"
    /\ Len(probe.result) = 2

\* C19: generateSentenceBatch uses the backlog band exactly when more than
\* due_cap word records have next_review_ts <= now, the normal band
\* otherwise; with exactly due_cap records due the band is the normal one.
C19_BacklogBand ==
    probe.fn = "generateSentenceBatch" =>
        LET due == Cardinality({ c \in DOMAIN probe.W :
                                   /\ probe.W[c] # NoRec
                                   /\ probe.W[c].next_review_ts <= probe.t })
        IN  probe.result.k_band =
                IF due > due_cap
                THEN [k_min |-> k_min_backlog, k_max |-> k_max_backlog]
                ELSE [k_min |-> k_min, k_max |-> k_max]

\* exactly due_cap records are due and the band is the normal one
C19_Witness ==
    /\ probe.fn = "generateSentenceBatch"
    /\ Cardinality({ c \in DOMAIN probe.W : probe.W[c].next_review_ts <= probe.t })
           = due_cap
    /\ probe.result.k_band = [k_min |-> k_min, k_max |-> k_max]

\* ------------------------------------------------------------------------
\* Sentence counters
\* ------------------------------------------------------------------------

\* C21: a recordSentenceProgress(sid, score) call that stores its record
\* raises seen_count by 1 and cumulative_score by score, raises pass_count
\* by 1 exactly when score >= 1.0 and sets last_outcome to pass exactly
\* then; so every sentence record has pass_count <= seen_count and
\* pass_count <= cumulative_score <= seen_count.
C21_SentenceCounters ==
    [][ \A sid \in Sids :
          /\ sentences[sid] # NoRec =>
                /\ sentences[sid].pass_count <= sentences[sid].seen_count
                /\ sentences[sid].pass_count * SCALE <= sentences[sid].cumulative_score
                /\ sentences[sid].cumulative_score <= sentences[sid].seen_count * SCALE
          /\ sentences'[sid] # NoRec =>
                /\ sentences'[sid].pass_count <= sentences'[sid].seen_count
                /\ sentences'[sid].pass_count * SCALE <= sentences'[sid].cumulative_score
                /\ sentences'[sid].cumulative_score <= sentences'[sid].seen_count * SCALE
          /\ sentences'[sid] # sentences[sid] =>
                LET seen == IF sentences[sid] = NoRec THEN 0 ELSE sentences[sid].seen_count
                    pass == IF sentences[sid] = NoRec THEN 0 ELSE sentences[sid].pass_count
                    cumulative == IF sentences[sid] = NoRec THEN 0
                                  ELSE sentences[sid].cumulative_score
                    full == prog.score >= SCALE
                IN  /\ prog.sid = sid
                    /\ sentences'[sid].seen_count = seen + 1
                    /\ sentences'[sid].cumulative_score = cumulative + prog.score
                    /\ sentences'[sid].pass_count = pass + (IF full THEN 1 ELSE 0)
                    /\ sentences'[sid].last_outcome = (IF full THEN "pass" ELSE "fail")
      ]_vars

\* a sentence passed once and then scored one half
C21_Witness ==
    \E sid \in Sids :
        /\ sentences[sid] # NoRec
        /\ sentences[sid].seen_count = 2
        /\ sentences[sid].pass_count = 1
        /\ sentences[sid].cumulative_score = SCALE + SCALE \div 2
        /\ sentences[sid].last_outcome = "fail"
        /\ prog.outcome = "committed"

\* ------------------------------------------------------------------------
\* Resuming, adopting and recovering
\* ------------------------------------------------------------------------

\* C22: a getNextSentence call that finds a persisted queue of its own
\* filter signature with ids left keeps that queue, also right after a
\* reload with no prefetch tracked: it returns sentences[current_index] of
\* the persisted queue, advances it by one and generates nothing.
C22_ResumesMidBatch ==
    [][ /\ ( /\ gns.pc = "idle" /\ gns'.pc # "idle"
             /\ dbQueue # NoQueue
             /\ dbQueue.current_index < Len(dbQueue.sentences)
             /\ dbQueue.script_filter = gns'.script_filter
             /\ dbQueue.hsk_filter = gns'.hsk_filter ) =>
              /\ gns'.pc = "draw"
              /\ gns'.how = "kept"
              /\ gns'.queue = dbQueue
        /\ (gns.pc = "draw" /\ gns.how = "kept" /\ gns'.pc = "idle") =>
              /\ gns.queue = dbQueue
              /\ gns'.ret = "returned"
              /\ gns'.sid = Sid(dbQueue.sentences[dbQueue.current_index + 1])
              /\ dbQueue' = [dbQueue EXCEPT !.current_index = dbQueue.current_index + 1]
      ]_vars

\* after a reload without a corpus the persisted queue's remaining id was
\* returned
C22_Witness ==
    /\ corpus = EmptyCorpus
    /\ gns.ret = "returned"
    /\ gns.how = "kept"
    /\ gns.sid = Sid(1)
    /\ dbQueue = StoredQueue(<<3, 1>>, 2, "mixed", "1-3")

\* C23: a call that needs a queue while a prefetch is tracked runs no
\* generation of its own: it waits until the prefetch run has ended, takes
\* the queue the run resolved to as its queue, persists it and clears
\* nextBatchPromise; a call generates only when no prefetch is tracked.
C23_AdoptsAtExhaustion ==
    [][ /\ (gns.pc = "need" /\ nextBatchPromise # Null /\ gns'.pc # "need") =>
              /\ nextBatchPromise.state # "pending"
              /\ gns'.how # "generated"
              /\ nextBatchPromise.state = "fulfilled" =>
                    /\ gns'.pc = "draw"
                    /\ gns'.how = "adopted"
                    /\ gns'.queue = nextBatchPromise.value
                    /\ dbQueue' = nextBatchPromise.value
                    /\ nextBatchPromise' = Null
        /\ (gns.pc = "need" /\ gns'.how = "generated") => nextBatchPromise = Null
      ]_vars

\* a used-up queue was replaced by the prefetched one, which is now
\* persisted, and the slot is clear
C23_Witness ==
    /\ gns.pc = "draw"
    /\ gns.how = "adopted"
    /\ gns.queue.current_index = 0
    /\ dbQueue = gns.queue
    /\ nextBatchPromise = Null

\* ------------------------------------------------------------------------
\* The fallback cascade
\* ------------------------------------------------------------------------

\* C24: for the same corpus, stores and time, what can be scored under the
\* initial pass is contained in what can be scored under fallback step 1,
\* and what can be scored under step n in what can be scored under step
\* n + 1, for n = 1..3.
C24_CascadeMonotone ==
    probe.fn = "applyFallbacks" =>
        \A n \in 0..3 : probe.scorable[n] \subseteq probe.scorable[n + 1]

\* C24, as the code has it: the eligible pools grow from step to step, and
\* so does what can be scored from the initial pass to step 1, from step 1
\* to step 2 and from step 3 to step 4; step 3 lowers the threshold, and a
\* sentence scored at step 2 is lost at step 3 exactly when none of its
\* learnable items has mastery below the lowered threshold.
C24_CascadeMonotoneButTheta ==
    probe.fn = "applyFallbacks" =>
        LET seen(c) == c \in DOMAIN probe.W /\ probe.W[c] # NoRec
            mastery(c) == IF seen(c) THEN probe.W[c].s ELSE INITIAL_S
            sentenceOf(id) == CHOOSE s \in { probe.allSentences[i] :
                                               i \in DOMAIN probe.allSentences } : s.id = id
            noneBelow(id) == \A i \in DOMAIN sentenceOf(id).chars :
                                 \/ sentenceOf(id).chars[i] = 0
                                 \/ mastery(sentenceOf(id).chars[i]) >= theta_known_fallback
        IN  /\ \A n \in 0..3 : probe.pools[n] \subseteq probe.pools[n + 1]
            /\ probe.scorable[0] \subseteq probe.scorable[1]
            /\ probe.scorable[1] \subseteq probe.scorable[2]
            /\ probe.scorable[3] \subseteq probe.scorable[4]
            /\ \A id \in probe.scorable[2] :
                  id \notin probe.scorable[3] <=> noneBelow(id)

\* ignoring the cooldown let sentence 1 in at step 2, the lowered threshold
\* put it out again at step 3
C24_Witness ==
    /\ probe.fn = "applyFallbacks"
    /\ 1 \notin probe.scorable[1]
    /\ 1 \in probe.scorable[2]
    /\ 1 \notin probe.scorable[3]
    /\ probe.pools[3] # probe.pools[4]

\* C25: generateSentenceBatch enters the cascade only when the initial
\* pass scored fewer than batch_size candidates and goes on to the next
\* step only while the last one scored fewer than batch_size.  Step 1
\* scores with the band [1, 6], cooldown and mastery skip applied; step 2
\* also ignores the cooldown; step 3 also lowers the threshold; step 4
\* also ignores the mastery skip; step 5 takes sentences unscored.  Each
\* step filters, samples and scores anew, and the queue is drawn from the
\* candidates of the last step made alone.
C25_CascadeSteps ==
    probe.fn = "generateSentenceBatch" =>
        LET k_cap == getDynamicKCap(probe.W)
            band == IF Cardinality({ c \in DOMAIN probe.W :
                                       /\ probe.W[c] # NoRec
                                       /\ probe.W[c].next_review_ts <= probe.t }) > due_cap
                    THEN [k_min |-> k_min_backlog, k_max |-> k_max_backlog]
                    ELSE [k_min |-> k_min, k_max |-> k_max]
            pool(ignoreCooldown, ignoreSkip) ==
                Take(shuffle(getEligibleSentences(probe.allSentences, probe.scriptFilter,
                                                  probe.hskFilter, probe.t,
                                                  ignoreCooldown, ignoreSkip, probe.S),
                             probe.r),
                     pool_sample_size)
            candidates(n) ==
                ScoredIds(
                    CASE n = 0 -> scoreCandidates(pool(FALSE, FALSE), band.k_min, band.k_max,
                                                  probe.t, theta_known, k_cap, probe.W, probe.S)
                      [] n = 1 -> scoreCandidates(pool(FALSE, FALSE), 1, 6,
                                                  probe.t, theta_known, k_cap, probe.W, probe.S)
                      [] n = 2 -> scoreCandidates(pool(TRUE, FALSE), 1, 6,
                                                  probe.t, theta_known, k_cap, probe.W, probe.S)
                      [] n = 3 -> scoreCandidates(pool(TRUE, FALSE), 1, 6, probe.t,
                                                  theta_known_fallback, k_cap, probe.W, probe.S)
                      [] n = 4 -> scoreCandidates(pool(TRUE, TRUE), 1, 6, probe.t,
                                                  theta_known_fallback, k_cap, probe.W, probe.S))
            enough == { n \in 0..4 : Cardinality(candidates(n)) >= batch_size }
            last == IF enough = {} THEN 5
                    ELSE CHOOSE n \in enough : \A m \in enough : n <= m
            queued == { probe.result.queue.sentences[i] :
                          i \in DOMAIN probe.result.queue.sentences }
        IN  /\ probe.result.fallbacks = last
            /\ last < 5 =>
                  /\ queued \subseteq candidates(last)
                  /\ Len(probe.result.queue.sentences) = batch_size

\* the cascade stopped at step 4: only without the mastery skip were there
\* batch_size candidates
C25_Witness ==
    /\ probe.fn = "generateSentenceBatch"
    /\ probe.result.fallbacks = 4
    /\ Len(probe.result.queue.sentences) = batch_size
    /\ 2 \in { probe.result.queue.sentences[i] : i \in DOMAIN probe.result.queue.sentences }

\* C30: when the last scoring pass yields at least batch_size candidates,
\* the ids of the queue are the first batch_size candidates in the order
\* score descending, then k descending, then last_seen_ts ascending (0 for
\* a sentence never seen): no candidate left out precedes a queued one.
\* The stored order is a permutation of that set.
C30_TopOfTotalOrder ==
    (probe.fn = "generateSentenceBatch" /\ probe.result.fallbacks < 5) =>
        LET k_cap == getDynamicKCap(probe.W)
            queue == probe.result.queue.sentences
            queued == { queue[i] : i \in DOMAIN queue }
            n == probe.result.fallbacks
            pool == Take(shuffle(getEligibleSentences(probe.allSentences, probe.scriptFilter,
                                                      probe.hskFilter, probe.t,
                                                      n >= 2, n >= 4, probe.S),
                                 probe.r),
                         pool_sample_size)
            kmin == IF n = 0 THEN probe.result.k_band.k_min ELSE 1
            kmax == IF n = 0 THEN probe.result.k_band.k_max ELSE 6
            theta == IF n >= 3 THEN theta_known_fallback ELSE theta_known
            final == scoreCandidates(pool, kmin, kmax, probe.t, theta, k_cap,
                                     probe.W, probe.S)
            precedes(a, b) ==
                \/ a.score > b.score
                \/ a.score = b.score /\ a.k > b.k
                \/ a.score = b.score /\ a.k = b.k /\ a.last_seen_ts < b.last_seen_ts
        IN  Len(final) >= batch_size =>
              /\ Len(queue) = batch_size
              /\ Cardinality(queued) = batch_size
              /\ queued \subseteq ScoredIds(final)
              /\ \A i \in DOMAIN final, j \in DOMAIN final :
                    (final[i].sid \notin queued /\ final[j].sid \in queued) =>
                        ~precedes(final[i], final[j])

\* twelve candidates for ten places: two were left out
C30_Witness ==
    /\ probe.fn = "generateSentenceBatch"
    /\ probe.result.fallbacks = 0
    /\ Len(probe.result.queue.sentences) = batch_size
    /\ probe.allSentences = CorpusLong
    /\ probe.scriptFilter = "mixed"
    /\ probe.W = NoWords

\* ------------------------------------------------------------------------
\* A prefetch whose run failed
\* ------------------------------------------------------------------------
PrefetchRejected == nextBatchPromise # Null /\ nextBatchPromise.state = "rejected"

\* the rejected promise stays in nextBatchPromise until a call finds a
\* persisted queue of another filter signature
RejectedPrefetchStays ==
    [][ (PrefetchRejected /\ nextBatchPromise' # nextBatchPromise) =>
            /\ gns.pc = "idle"
            /\ dbQueue # NoQueue
            /\ ~SameFilter(dbQueue, gns'.script_filter, gns'.hsk_filter)
      ]_vars

\* C26: a failed prefetch does not block the practice flow: after a call
\* at exhaustion has raised on the failed prefetch, the next call with the
\* same filter does not reach step 3 with that prefetch still tracked (it
\* has been dropped, so the call generates a queue and returns an id).
C26_FailedPrefetchDropped ==
    [][ ( /\ gns.pc = "idle" /\ gns.ret = "raised"
          /\ PrefetchRejected
          /\ gns'.pc = "need"
          /\ gns'.script_filter = gns.script_filter
          /\ gns'.hsk_filter = gns.hsk_filter ) =>
            nextBatchPromise' = Null
      ]_vars

\* ------------------------------------------------------------------------
\* The script and level filters of a generated queue
\* ------------------------------------------------------------------------

\* the ids that the script filter and the level filter let through, each
\* with its fallback for an empty result
FilteredPoolIds(allSentences, scriptFilter, hskFilter) ==
    LET ids(keep(_)) == { allSentences[i].id :
                            i \in { j \in DOMAIN allSentences : keep(allSentences[j]) } }
        plain(s) == s.script_type # "ambiguous"
        byScript(s) ==
            /\ plain(s)
            /\ scriptFilter = "simplified" => s.script_type # "traditional"
            /\ scriptFilter = "traditional" => s.script_type # "simplified"
        scriptEmpty == ids(byScript) = {}
        inScript(s) == IF scriptEmpty THEN plain(s) ELSE byScript(s)
        byLevel(s) == inScript(s) /\ s.hskLevel \in parseHskFilter(hskFilter)
    IN  IF ids(byLevel) = {} THEN ids(inScript) ELSE ids(byLevel)

QueuedIds(queue) == { queue.sentences[i] : i \in DOMAIN queue.sentences }

\* C28: every id of a queue produced by generateSentenceBatch belongs to
\* the pool left by the script filter and the level filter (with their
\* empty-result fallbacks) for the script and level asked for.
C28_QueueWithinFilters ==
    (probe.fn = "generateSentenceBatch" /\ ~probe.result.error) =>
        QueuedIds(probe.result.queue) \subseteq
            FilteredPoolIds(probe.allSentences, probe.scriptFilter, probe.hskFilter)

\* C28 as the code has it: a queue produced without reaching fallback
\* step 5 lies within the script- and level-filtered pool; a queue of step 5
\* lies within the non-ambiguous sentences of the whole corpus.
C28_QueueWithinFiltersBeforeStep5 ==
    (probe.fn = "generateSentenceBatch" /\ ~probe.result.error) =>
        IF probe.result.fallbacks < 5
        THEN QueuedIds(probe.result.queue) \subseteq
                FilteredPoolIds(probe.allSentences, probe.scriptFilter, probe.hskFilter)
        ELSE \A i \in DOMAIN probe.allSentences :
                probe.allSentences[i].id \in QueuedIds(probe.result.queue) =>
                    probe.allSentences[i].script_type # "ambiguous"

\* a full queue for 'simplified' from a corpus that also holds traditional
\* sentences and sentences without a level, found before step 5
C28_Witness ==
    /\ probe.fn = "generateSentenceBatch"
    /\ probe.result.fallbacks < 5
    /\ probe.scriptFilter = "simplified"
    /\ probe.allSentences = CorpusLong
    /\ Len(probe.result.queue.sentences) = batch_size

\* ------------------------------------------------------------------------
\* A full reset while a prefetch is tracked
\* ------------------------------------------------------------------------

C27_CooldownAcrossQueues ==
    [][ ( /\ gns.pc = "draw"
          /\ gns.how \in {"generated", "adopted"}
          /\ gns.fallbacks < 2
          /\ gns'.ret = "returned"
          /\ gns'.sid.defined ) =>
            LET sentenceState == SentenceOf(sentences, gns'.sid.sid)
            IN  sentenceState # NoRec =>
                    now - sentenceState.last_seen_ts >= cooldown_minutes
      ]_vars

\* ------------------------------------------------------------------------
\* The unknown items of a scored sentence
\* ------------------------------------------------------------------------

\* the learnable items of a sentence whose mastery is below theta
UnknownSet(sentence, theta, W) ==
    { sentence.chars[i] :
        i \in { j \in DOMAIN sentence.chars :
                  /\ sentence.chars[j] # 0
                  /\ (IF WordOf(W, sentence.chars[j]) = NoRec THEN INITIAL_S
                      ELSE WordOf(W, sentence.chars[j]).s) < theta } }

\* C31: the k that scoreSentence reports is the number of distinct unknown
\* learnable items of the sentence: an item that occurs several times
\* counts once.
C31_KIsUnknownSet ==
    (probe.fn = "scoreSentence" /\ probe.result.ok) =>
        probe.result.k = Cardinality(UnknownSet(probe.sentence, probe.theta, probe.W))

\* ------------------------------------------------------------------------
\* The filters and gates of getEligibleSentences
\* ------------------------------------------------------------------------
IdsOf(seq) == { seq[i].id : i \in DOMAIN seq }

\* C32: the script filter keeps exactly the simplified and neutral
\* sentences in mode 'simplified', the traditional and neutral ones in
\* mode 'traditional', every non-ambiguous one in mode 'mixed'; when that
\* leaves nothing, the pool is every non-ambiguous sentence of the corpus.
C32_ScriptFilter ==
    probe.fn = "getEligibleSentences" =>
        LET kept(s) ==
                CASE probe.scriptFilter = "simplified" ->
                        s.script_type \in {"simplified", "neutral"}
                  [] probe.scriptFilter = "traditional" ->
                        s.script_type \in {"traditional", "neutral"}
                  [] probe.scriptFilter = "mixed" ->
                        s.script_type \in {"simplified", "traditional", "neutral"}
            plain(s) == s.script_type \in {"simplified", "traditional", "neutral"}
            exact == SelectSeq(probe.allSentences, kept)
        IN  probe.filtered = IF exact = << >>
                             THEN SelectSeq(probe.allSentences, plain)
                             ELSE exact

\* mode 'traditional' on a corpus of all script types: the simplified and
\* the ambiguous sentences are gone, the neutral ones stay
C32_Witness ==
    /\ probe.fn = "getEligibleSentences"
    /\ probe.scriptFilter = "traditional"
    /\ probe.allSentences = CorpusLarge
    /\ IdsOf(probe.filtered) = {4, 5, 6, 7, 9, 12}

\* C33: the level filter keeps exactly the script-filtered sentences whose
\* level tag is in the cumulative set of the ceiling, a sentence without a
\* tag never; only when that leaves nothing is the pool the whole
\* script-filtered pool.
C33_LevelFilter ==
    probe.fn = "getEligibleSentences" =>
        LET levels == CASE probe.hskFilter = "1" -> {"1"}
                        [] probe.hskFilter = "1-2" -> {"1", "2"}
                        [] probe.hskFilter = "1-3" -> {"1", "2", "3"}
            inLevel(s) == s.hskLevel \in levels
            exact == SelectSeq(probe.filtered, inLevel)
        IN  /\ "" \notin levels
            /\ probe.levelled = IF exact = << >> THEN probe.filtered ELSE exact

\* ceiling '1-3' on the simplified and neutral sentences: the untagged
\* sentence 8 is dropped
C33_Witness ==
    /\ probe.fn = "getEligibleSentences"
    /\ probe.scriptFilter = "simplified"
    /\ probe.hskFilter = "1-3"
    /\ probe.allSentences = CorpusLarge
    /\ 8 \in IdsOf(probe.filtered)
    /\ IdsOf(probe.levelled) = {1, 2, 3, 4, 5, 9, 10, 12}

\* C34: the cooldown gate excludes a sentence exactly when it has a record
\* and less than the cooldown has passed since last_seen_ts (a sentence
\* seen exactly one cooldown ago passes); with ignoreCooldown it excludes
\* nothing.
C34_CooldownGate ==
    probe.fn = "getEligibleSentences" =>
        LET cooling(s) ==
                /\ ~probe.ignoreCooldown
                /\ s.id \in DOMAIN probe.S
                /\ probe.S[s.id] # NoRec
                /\ probe.t - probe.S[s.id].last_seen_ts < cooldown_minutes
            notCooling(s) == ~cooling(s)
        IN  /\ \A i \in DOMAIN probe.result : notCooling(probe.result[i])
            /\ probe.ignoreSkip =>
                  probe.result = SelectSeq(probe.levelled, notCooling)

\* sentence 1 was last seen exactly one cooldown ago and is eligible
C34_Witness ==
    /\ probe.fn = "getEligibleSentences"
    /\ ~probe.ignoreCooldown
    /\ probe.S = VeteranSentences
    /\ probe.t - probe.S[1].last_seen_ts = cooldown_minutes
    /\ 1 \in IdsOf(probe.result)

\* C35: the mastery-skip gate excludes a sentence exactly when it has a
\* record with ewma_pass at or above the skip threshold and seen_count at
\* or above min_seen_for_skip; with ignoreSkip it excludes nothing.
C35_SkipGate ==
    probe.fn = "getEligibleSentences" =>
        LET mastered(s) ==
                /\ ~probe.ignoreSkip
                /\ s.id \in DOMAIN probe.S
                /\ probe.S[s.id] # NoRec
                /\ probe.S[s.id].ewma_pass * 10 >= 9 * SCALE
                /\ probe.S[s.id].seen_count >= 2
            notMastered(s) == ~mastered(s)
        IN  /\ \A i \in DOMAIN probe.result : notMastered(probe.result[i])
            /\ probe.ignoreCooldown =>
                  probe.result = SelectSeq(probe.levelled, notMastered)

\* sentence 2, passed twice, is skipped; sentence 1, passed once, is not
C35_Witness ==
    /\ probe.fn = "getEligibleSentences"
    /\ ~probe.ignoreSkip
    /\ probe.S = MasteredSentences
    /\ {1, 2} \subseteq IdsOf(probe.levelled)
    /\ 1 \in IdsOf(probe.result)
    /\ 2 \notin IdsOf(probe.result)

\* ------------------------------------------------------------------------
\* The shape of a generated queue
\* ------------------------------------------------------------------------

\* C36: a queue returned by generateSentenceBatch starts at index 0,
\* carries the script and level filters asked for, holds no id twice and
\* holds exactly min(batch_size, number of non-ambiguous sentences of the
\* corpus) ids.
C36_QueueShape ==
    (probe.fn = "generateSentenceBatch" /\ ~probe.result.error) =>
        LET queue == probe.result.queue
            plain == { i \in DOMAIN probe.allSentences :
                         probe.allSentences[i].script_type # "ambiguous" }
        IN  /\ queue.current_index = 0
            /\ queue.script_filter = probe.scriptFilter
            /\ queue.hsk_filter = probe.hskFilter
            /\ \A i, j \in DOMAIN queue.sentences :
                  queue.sentences[i] = queue.sentences[j] => i = j
            /\ Len(queue.sentences) =
                  IF Cardinality(plain) < batch_size THEN Cardinality(plain)
                  ELSE batch_size

\* thirteen non-ambiguous sentences, ten of them scored: a full queue
C36_Witness ==
    /\ probe.fn = "generateSentenceBatch"
    /\ probe.allSentences = CorpusLong
    /\ probe.result.fallbacks < 5
    /\ Len(probe.result.queue.sentences) = batch_size
    /\ probe.result.queue.script_filter = "simplified"
    /\ probe.result.queue.hsk_filter = "1-3"

\* ------------------------------------------------------------------------
\* The band of scoreSentence
\* ------------------------------------------------------------------------

\* C37: whether scoreSentence scores a sentence does not depend on the
\* band: under two bands both calls score or both reject, and report the
\* same k; the band only changes the score, through a penalty that is 0
\* exactly when k lies within the band.
C37_BandOnlyPenalises ==
    probe.fn = "scoreSentence twice" =>
        /\ probe.a.ok = probe.b.ok
        /\ probe.a.ok =>
              LET k == probe.a.k
                  inA == probe.bandA.k_min <= k /\ k <= probe.bandA.k_max
                  inB == probe.bandB.k_min <= k /\ k <= probe.bandB.k_max
              IN  /\ probe.b.k = k
                  /\ (inA /\ inB) => probe.a.score = probe.b.score
                  /\ (inA /\ ~inB) => probe.a.score > probe.b.score
                  /\ (~inA /\ inB) => probe.a.score < probe.b.score

\* one unknown item: inside the band [1, 3], below the band [2, 5], both
\* calls score
C37_Witness ==
    /\ probe.fn = "scoreSentence twice"
    /\ probe.a.ok /\ probe.b.ok
    /\ probe.a.k = 1
    /\ probe.bandA = [k_min |-> k_min_backlog, k_max |-> k_max_backlog]
    /\ probe.bandB = [k_min |-> k_min, k_max |-> k_max]
    /\ probe.a.score > probe.b.score


\* the streak a record had when the running call began
StreakBefore(c) == IF att.before[c] = NoRec THEN 0 ELSE att.before[c].streak_correct

\* the counters of one stored word record are consistent
WordCountersOk(w) ==
    /\ w.n_attempts >= 1
    /\ 0 <= w.n_correct /\ w.n_correct <= w.n_attempts
    /\ w.streak_correct <= w.n_correct
    /\ (w.last_outcome = "correct") <=> (w.streak_correct > 0)

\* C38: after any sequence of recordSentenceAttempt calls every stored
\* word record has n_attempts >= 1, 0 <= n_correct <= n_attempts,
\* streak_correct <= n_correct and last_outcome = 'correct' iff
\* streak_correct > 0; and streak_correct counts the consecutive correct
\* outcomes ending at the latest update: a call that commits leaves each
\* id of its batch with the streak it had plus one when the id's outcome
\* was correct, and with 0 when it was wrong.
C38_WordCounters ==
    /\ [](\A c \in StoredWords(words) : WordCountersOk(words[c]))
    /\ [][ (att.pc = "tx" /\ att'.outcome = "committed") =>
              \A c \in BatchIds(att.attempts) :
                  words'[c].streak_correct =
                      IF AllCorrect(att.attempts, c) THEN StreakBefore(c) + 1 ELSE 0
         ]_vars

\* a record with a streak behind it has been updated with a wrong outcome
\* (its streak fell to 0 while n_correct stayed), and another record has
\* grown its streak
C38_Witness ==
    /\ att.outcome = "committed"
    /\ \E c \in StoredWords(words) :
          /\ words[c].streak_correct = 0
          /\ words[c].n_correct >= 1
          /\ words[c].last_outcome = "wrong"
    /\ \E c \in StoredWords(words) :
          /\ words[c].streak_correct >= 1
          /\ words[c].streak_correct = words[c].n_correct


\* the record an id had when the running call began, a never-seen id
\* counted with the initial values
StrengthBefore(c) == IF att.before[c] = NoRec THEN INITIAL_S ELSE att.before[c].s

StabilityBefore(c) ==
    IF att.before[c] = NoRec THEN INITIAL_STABILITY ELSE att.before[c].stability_days

\* C39: a committing recordSentenceAttempt call stores, for a never-seen
\* id, the update of the initial record: s = 0.44 and stability 1.4 days
\* after a correct attempt, s = 0.24 and stability 0.7 days after a wrong
\* one, with n_attempts = 1; for every id s' = clamp01(s + alpha*(e - s))
\* and stability' = clamp(stability * (UP if correct else DOWN), MIN_STAB,
\* MAX_STAB), so that a correct attempt lowers neither s nor stability and
\* a wrong attempt raises neither.
C39_FirstAttemptValues ==
    [][ (att.pc = "tx" /\ att'.outcome = "committed") =>
            \A c \in BatchIds(att.attempts) :
                LET correct == AllCorrect(att.attempts, c)
                    e == IF correct THEN SCALE ELSE 0
                    s == StrengthBefore(c)
                    stab == StabilityBefore(c)
                    w == words'[c]
                IN  /\ att.before[c] = NoRec =>
                          /\ w.n_attempts = 1
                          /\ w.s = (IF correct THEN 440000 ELSE 240000)
                          /\ w.stability_days = (IF correct THEN 1400000 ELSE 700000)
                    /\ w.s = Clamp01(s + ((e - s) * 2) \div 10)
                    /\ w.stability_days =
                          Max(MIN_STABILITY,
                              Min(MAX_STABILITY,
                                  (stab * (IF correct THEN 14 ELSE 7)) \div 10))
                    /\ correct => w.s >= s /\ w.stability_days >= stab
                    /\ ~correct => w.s <= s /\ w.stability_days <= stab
      ]_vars

\* the first attempts on two never-seen ids have been committed at the
\* same time, one correct and one wrong
C39_Witness ==
    /\ att.outcome = "committed"
    /\ \E c, d \in StoredWords(words) :
          /\ words[c].n_attempts = 1 /\ words[c].last_outcome = "correct"
          /\ words[c].s = 440000 /\ words[c].stability_days = 1400000
          /\ words[d].n_attempts = 1 /\ words[d].last_outcome = "wrong"
          /\ words[d].s = 240000 /\ words[d].stability_days = 700000
          /\ words[c].last_seen_ts = words[d].last_seen_ts


\* A later session on a store that earlier sessions left behind: the
\* sentences drawn are practised and recorded three days after the stored
\* records were written
InitFrame ==
    /\ now = 3 * DAY
    /\ ticks = 0
    /\ words = VeteranWords
    /\ sentences = VeteranSentences
    /\ att = AttIdle
    /\ prog = ProgIdle
    /\ nRecorded = 0
    /\ nFinished = 0
    /\ corpus = CorpusSmall
    /\ dbQueue = NoQueue
    /\ nextBatchPromise = Null
    /\ orphanRuns = 0
    /\ gns = GnsIdle
    /\ superseded = FALSE
    /\ probe = NoProbe

NextFrame ==
    \/ NextQueue
    \/ FinishReturned
    \/ RSA_Step /\ UNCHANGED queueVars
    \/ RSA_Commit /\ UNCHANGED queueVars
    \/ RSA_Fail /\ UNCHANGED queueVars
    \/ RSP_Get /\ UNCHANGED queueVars
    \/ RSP_Put /\ UNCHANGED queueVars
    \/ RSP_Fail /\ UNCHANGED queueVars

SpecFrame == InitFrame /\ [][NextFrame]_vars

\* a record that existed keeps the given fields
Keeps(before, after, fields) ==
    before # NoRec => after # NoRec /\ \A f \in fields : after[f] = before[f]

\* C40: a word record changes only in a step of recordSentenceAttempt, only
\* for an id of its batch, and keeps char_id and introduced_ts if it
\* existed; a sentence record changes only in the put of
\* recordSentenceProgress, only for the given sid, and keeps introduced_ts
\* if it existed; a step of recordSentenceAttempt leaves the sentence
\* records alone, a step of recordSentenceProgress the word records, and
\* neither changes the persisted queue, the prefetch promise, the
\* superseded runs or the state of getNextSentence; a step of
\* getNextSentence or of a generation run changes no word and no sentence
\* record.
C40_Frame ==
    [][ /\ \A c \in DOMAIN words :
              words'[c] # words[c] =>
                  /\ att.pc = "tx"
                  /\ c \in BatchIds(att.attempts)
                  /\ Keeps(words[c], words'[c], {"char_id", "introduced_ts"})
        /\ \A sid \in DOMAIN sentences :
              sentences'[sid] # sentences[sid] =>
                  /\ prog.pc = "put"
                  /\ sid = prog.sid
                  /\ Keeps(sentences[sid], sentences'[sid], {"sid", "introduced_ts"})
        /\ att' # att => sentences' = sentences
        /\ prog' # prog => words' = words
        /\ (att' # att \/ prog' # prog) =>
              /\ dbQueue' = dbQueue
              /\ nextBatchPromise' = nextBatchPromise
              /\ orphanRuns' = orphanRuns
              /\ gns' = gns
        /\ ( \/ gns' # gns
             \/ dbQueue' # dbQueue
             \/ nextBatchPromise' # nextBatchPromise
             \/ orphanRuns' # orphanRuns ) =>
              words' = words /\ sentences' = sentences
      ]_vars

\* with a queue persisted and a prefetch pending, both record functions
\* have committed updates of records that existed before: a word record
\* and the sentence record seen three days earlier
C40_Witness ==
    /\ dbQueue # NoQueue
    /\ nextBatchPromise # Null
    /\ nextBatchPromise.state = "pending"
    /\ att.outcome = "committed"
    /\ prog.outcome = "committed"
    /\ \E c \in StoredWords(words) :
          words[c].last_seen_ts = 3 * DAY /\ words[c].introduced_ts = 0
    /\ \E sid \in Sids :
          /\ sentences[sid] # NoRec
          /\ sentences[sid].seen_count = 2
          /\ sentences[sid].introduced_ts = 0
====
